---------------------------- MODULE Spec2Model ----------------------------
(***************************************************************************)
(* A model of the Ali Best Price bot: the usage telemetry                  *)
(* (bot/analytics.py), the commerce API client with its sliding-window     *)
(* rate limiter (bot/aliexpress.py), the link extractor (bot/utils.py) and *)
(* the conversation orchestrator (bot/handlers.py).                        *)
(*                                                                         *)
(* The bot runs on one asyncio event loop: code between two awaits is      *)
(* atomic, and tasks interleave at the awaits (asyncio.sleep, the HTTP     *)
(* post, the chat transport's answer and edit_text).  Each action below    *)
(* is the code one task runs from one await to the next.                   *)
(*                                                                         *)
(* Time is time.time() in whole seconds.  Two program numbers are scaled   *)
(* down so that the cases of interest are reachable: the per-minute cap    *)
(* MAX_REQUESTS_PER_MINUTE (30 in config.py) and the flush period          *)
(* FlushEvery (the literal 100 in analytics.py).  The formulas are stated  *)
(* in terms of these names, never of their values.                         *)
(***************************************************************************)
EXTENDS Integers, Sequences, FiniteSets, TLC

VARIABLES
    now,                 \* time.time(), whole seconds
    ticks,               \* one-second clock steps taken so far (bounded)
    request_timestamps,  \* aliexpress.py: the rate limiter's window
    caller,              \* callers of make_api_request (rate-limiter view)
    requests,            \* history: every call of respect_rate_limit, in call order
    user_actions,        \* analytics.py: the event log
    action_counts,       \* analytics.py: action type -> count
    user_last_active,    \* analytics.py: user id -> timestamp
    disk,                \* data/*.json: the three persisted blobs
    flush_at,            \* history: len(user_actions) at every call of save_analytics_to_file
    last_flush,          \* history: how the latest call of save_analytics_to_file ended
    posts,               \* history: every HTTP post issued, in order
    api,                 \* a direct caller of the API client's two operations
    handler,             \* process_message, one task per inbound message
    chat,                \* history: per message, the chat transport calls made
    boots,               \* history: process starts after the first
    stats,               \* cmd_stats: what the latest get_statistics returned
    util,                \* a direct caller of the functions of bot/utils.py
    ADMIN_USER_IDS       \* config.py: the users allowed to ask for the statistics

vars == <<now, ticks, request_timestamps, caller, requests,
          user_actions, action_counts, user_last_active, disk, flush_at, last_flush,
          posts, api, handler, chat, boots, stats, util, ADMIN_USER_IDS>>

clockVars     == <<now, ticks>>
rateVars      == <<request_timestamps, caller, requests>>
telemetryVars == <<user_actions, action_counts, user_last_active, disk, flush_at, last_flush>>
botVars       == <<handler, chat>>
probeVars     == <<boots, stats, util, ADMIN_USER_IDS>>

-----------------------------------------------------------------------------
(* Bounds of the model.                                                    *)

\* config.py sets 30; scaled so that a full window is reachable.
MAX_REQUESTS_PER_MINUTE == 2
\* analytics.py flushes when len(user_actions) % 100 == 0; scaled.
FlushEvery == 2
\* One-second clock steps in a behaviour (jumps to a sleeper's wake-up are free).
MaxTicks == 2
\* Concurrent callers of make_api_request in the rate-limiter specification.
NumCallers == 3
\* Events recorded in the telemetry specification.
MaxEvents == 4
\* One-second clock steps in a behaviour of the orchestrator.
BotTicks == 1
MaxBoots == 1
MaxNest == 2

\* aliexpress.py: the window's length in seconds (lines 28 and 32).
WINDOW_SECONDS == 60

\* Calls of respect_rate_limit in the rate-limiter specification: enough to
\* fill the window and have two more callers find it full.
MaxRequests == MAX_REQUESTS_PER_MINUTE + 2

\* Telegram user ids (message.from_user.id).
Users == {1, 2}
Callers == 1..NumCallers
\* The inbound messages of a behaviour, each handled by its own task (a
\* task is also a caller of the rate limiter).
Messages == {1, 2}

-----------------------------------------------------------------------------
(* Small helpers.                                                          *)

Min(S) == CHOOSE x \in S : \A y \in S : x <= y

IsPrefix(s, t) == Len(s) <= Len(t) /\ SubSeq(t, 1, Len(s)) = s

\* A Python dict with integer keys: a function on a finite set of keys.
EmptyDict == [k \in {} |-> 0]
DictSet(d, k, v) == [x \in (DOMAIN d) \cup {k} |-> IF x = k THEN v ELSE d[x]]

-----------------------------------------------------------------------------
(* The clock: time.time().                                                 *)

\* One second passes.
Tick ==
    /\ ticks < MaxTicks
    /\ now' = now + 1
    /\ ticks' = ticks + 1

\* The event loop idles until the earliest pending asyncio.sleep is due.
SleepWakes(c) == caller[c].pc = "sleeping" /\ caller[c].wake > now

AdvanceToWake ==
    /\ \E c \in Callers : SleepWakes(c)
    /\ now' = Min({caller[c].wake : c \in {x \in Callers : SleepWakes(x)}})
    /\ ticks' = ticks

-----------------------------------------------------------------------------
(* Usage telemetry: bot/analytics.py.                                      *)

ActionTypes ==
    {"start_command", "help_command", "stats_command", "message_received",
     "product_not_found", "link_processed_successfully", "error_processing_link"}

UsageEvent(user_id, action_type, timestamp) ==
    [user_id |-> user_id, action_type |-> action_type, timestamp |-> timestamp]

\* defaultdict(int): a key never written reads as 0.
NoCounts == [a \in ActionTypes |-> 0]

\* One of the three files under data/: absent, written whole, or left
\* truncated by a write that raised after open(..., 'w') emptied the file.
Blob(status, data) == [status |-> status, data |-> data]

EmptyDisk ==
    [user_actions     |-> Blob("absent", <<>>),
     action_counts    |-> Blob("absent", NoCounts),
     user_last_active |-> Blob("absent", EmptyDict)]

\* How one call of save_analytics_to_file ends.  fails_at = 0: os.makedirs
\* raises; 1, 2, 3: that write raises, before the file was opened
\* (truncates = FALSE) or after open() emptied it (truncates = TRUE);
\* 4: nothing raises.
FlushOutcomes ==
    {[fails_at |-> 0, truncates |-> FALSE], [fails_at |-> 4, truncates |-> FALSE]}
    \cup [fails_at : 1..3, truncates : BOOLEAN]

\* No call of save_analytics_to_file yet.
NoFlush == [fails_at |-> -1, truncates |-> FALSE]

FlushCompleted(o) == o.fails_at = 4

\* str(k) and int(s) on the user ids: json.dump writes the integer keys of a
\* dict as strings, and load_analytics_from_file converts them back.
str(k) == <<"0", "1", "2", "3", "4", "5", "6", "7", "8", "9">>[k + 1]
int(s) == CHOOSE k \in 0..9 : str(k) = s

\* json.dump of a dict with integer keys: a JSON object, its keys strings.
json_dump_keys(d) == [s \in {str(k) : k \in DOMAIN d} |-> d[int(s)]]

\* One json.dump into one file, the k-th of the three.
WriteBlob(old, empty, data, k, o) ==
    IF o.fails_at > k THEN Blob("ok", data)
    ELSE IF o.fails_at = k /\ o.truncates THEN Blob("partial", empty)
    ELSE old

\* A flush that writes the event log without its latest event.
save_analytics_to_file_stale(d, ua, ac, ula, o) ==
    [user_actions     |-> WriteBlob(d.user_actions, <<>>,
                                    SubSeq(ua, 1, Len(ua) - 1), 1, o),
     action_counts    |-> WriteBlob(d.action_counts, NoCounts, ac, 2, o),
     user_last_active |-> WriteBlob(d.user_last_active, EmptyDict,
                                    json_dump_keys(ula), 3, o)]

\* save_analytics_to_file: three independent writes inside one try; the first
\* that raises skips the rest, and the exception is logged and swallowed.
save_analytics_to_file(d, ua, ac, ula, o) ==
    [user_actions     |-> WriteBlob(d.user_actions, <<>>, ua, 1, o),
     action_counts    |-> WriteBlob(d.action_counts, NoCounts, ac, 2, o),
     user_last_active |-> WriteBlob(d.user_last_active, EmptyDict,
                                    json_dump_keys(ula), 3, o)]

FlushDue_off_by_one(n) == (n + 1) % FlushEvery = 0

\* len(user_actions) % 100 == 0, evaluated after the append.
FlushDue(n) == n % FlushEvery = 0

CountAction_lost(ac, action_type) == ac

\* action_counts[action_type] += 1
CountAction(ac, action_type) == [ac EXCEPT ![action_type] = @ + 1]

log_user_action_starts_over(user_id, action_type, o) ==
    LET timestamp == now
        ua  == Append(user_actions, UsageEvent(user_id, action_type, timestamp))
        ac  == CountAction(action_counts, action_type)
        ula == DictSet(user_last_active, user_id, timestamp)
    IN  /\ action_counts' = ac
        /\ user_last_active' = ula
        /\ IF FlushDue(Len(ua))
           THEN /\ disk' = save_analytics_to_file(disk, ua, ac, ula, o)
                /\ flush_at' = Append(flush_at, Len(ua))
                /\ last_flush' = o
                /\ user_actions' = <<>>
           ELSE /\ user_actions' = ua
                /\ UNCHANGED <<disk, flush_at, last_flush>>

\* log_user_action(user_id, action_type); o is how the flush, if one is due,
\* ends.
log_user_action(user_id, action_type, o) ==
    LET timestamp == now
        ua  == Append(user_actions, UsageEvent(user_id, action_type, timestamp))
        ac  == CountAction(action_counts, action_type)
        ula == DictSet(user_last_active, user_id, timestamp)
    IN  /\ user_actions' = ua
        /\ action_counts' = ac
        /\ user_last_active' = ula
        /\ IF FlushDue(Len(ua))
           THEN /\ disk' = save_analytics_to_file(disk, ua, ac, ula, o)
                /\ flush_at' = Append(flush_at, Len(ua))
                /\ last_flush' = o
           ELSE UNCHANGED <<disk, flush_at, last_flush>>

\* os.path.exists(file), and whether json.load(file) returns.
Exists(b) == b.status # "absent"
Decodes(b) == b.status = "ok"

\* The loads of load_analytics_from_file, in the order of the code.
LoadOrder == <<"user_actions", "action_counts", "user_last_active">>

\* The first load that raises; 4 when none does.  The three loads share one
\* try, so the loads after it are not attempted.
LoadFailsAt(d) ==
    Min({k \in 1..3 : Exists(d[LoadOrder[k]]) /\ ~Decodes(d[LoadOrder[k]])} \cup {4})

\* {int(k): v for k, v in json.load(f).items()}
IntKeys(data) == [k \in {int(s) : s \in DOMAIN data} |-> data[str(k)]]

\* What the k-th load reads: the file's content, or empty when the file is
\* not there or the load is not reached.
Loaded(d, k, empty) ==
    IF Exists(d[LoadOrder[k]]) /\ k < LoadFailsAt(d)
    THEN d[LoadOrder[k]].data
    ELSE empty

\* load_analytics_from_file, on the tables as the module created them
\* (empty): what they hold afterwards.  The except clause logs whatever was
\* raised, so nothing is raised to the caller.
load_analytics_from_file(d) ==
    [user_actions     |-> Loaded(d, 1, <<>>),
     action_counts    |-> Loaded(d, 2, NoCounts),
     user_last_active |-> IntKeys(Loaded(d, 3, EmptyDict)),
     raised           |-> FALSE]

\* The two windows of get_statistics, in seconds.
DAY_SECONDS == 86400
WEEK_SECONDS == 604800

get_statistics_one_failure_tag(ula, ac, t) ==
    [total_users |-> Cardinality(DOMAIN ula),
     active_today |-> Cardinality({u \in DOMAIN ula : ula[u] >= t - DAY_SECONDS}),
     active_this_week |-> Cardinality({u \in DOMAIN ula : ula[u] >= t - WEEK_SECONDS}),
     total_requests |-> ac["message_received"],
     successful_conversions |-> ac["link_processed_successfully"],
     failed_conversions |-> ac["error_processing_link"]]

get_statistics_windows_swapped(ula, ac, t) ==
    [total_users |-> Cardinality(DOMAIN ula),
     active_today |-> Cardinality({u \in DOMAIN ula : ula[u] >= t - WEEK_SECONDS}),
     active_this_week |-> Cardinality({u \in DOMAIN ula : ula[u] >= t - DAY_SECONDS}),
     total_requests |-> ac["message_received"],
     successful_conversions |-> ac["link_processed_successfully"],
     failed_conversions |-> ac["error_processing_link"] + ac["product_not_found"]]

\* get_statistics(), on the tables ula and ac at time t.
get_statistics(ula, ac, t) ==
    [total_users |-> Cardinality(DOMAIN ula),
     active_today |-> Cardinality({u \in DOMAIN ula : ula[u] >= t - DAY_SECONDS}),
     active_this_week |-> Cardinality({u \in DOMAIN ula : ula[u] >= t - WEEK_SECONDS}),
     total_requests |-> ac["message_received"],
     successful_conversions |-> ac["link_processed_successfully"],
     failed_conversions |-> ac["error_processing_link"] + ac["product_not_found"]]

-----------------------------------------------------------------------------
(* The rate limiter: respect_rate_limit in bot/aliexpress.py.              *)

\* [ts for ts in request_timestamps if current_time - ts < 60]
Purge(ts, current_time) ==
    SelectSeq(ts, LAMBDA x : current_time - x < WINDOW_SECONDS)

WaitTime_none(purged, current_time) == 0

WaitTime_plus_age(purged, current_time) ==
    IF Len(purged) >= MAX_REQUESTS_PER_MINUTE
    THEN WINDOW_SECONDS + (current_time - purged[1])
    ELSE 0

\* 60 - (current_time - request_timestamps[0]) when the window is full, and
\* no wait (0) when it is not.
WaitTime(purged, current_time) ==
    IF Len(purged) >= MAX_REQUESTS_PER_MINUTE
    THEN WINDOW_SECONDS - (current_time - purged[1])
    ELSE 0

\* respect_rate_limit up to its only await: purge, and either append the
\* timestamp at once or suspend in asyncio.sleep(wait_time).  next_pc is
\* where the caller goes on when it was not suspended.
respect_rate_limit(c, next_pc) ==
    LET current_time == now
        purged == Purge(request_timestamps, current_time)
        wait_time == WaitTime(purged, current_time)
        req == Len(requests) + 1
    IN  IF wait_time > 0
        THEN /\ request_timestamps' = purged
             /\ caller' = [caller EXCEPT ![c] =
                    [pc |-> "sleeping", wake |-> current_time + wait_time, req |-> req]]
             /\ requests' = Append(requests,
                    [caller |-> c, called_at |-> current_time,
                     dispatched |-> FALSE, ts |-> 0])
        ELSE /\ request_timestamps' = Append(purged, now)
             /\ caller' = [caller EXCEPT ![c] =
                    [pc |-> next_pc, wake |-> 0, req |-> 0]]
             /\ requests' = Append(requests,
                    [caller |-> c, called_at |-> current_time,
                     dispatched |-> TRUE, ts |-> now])

\* The rest of respect_rate_limit, once asyncio.sleep has returned:
\* request_timestamps.append(time.time()).
respect_rate_limit_resume(c, next_pc) ==
    /\ caller[c].pc = "sleeping"
    /\ now >= caller[c].wake
    /\ request_timestamps' = Append(request_timestamps, now)
    /\ requests' = [requests EXCEPT ![caller[c].req] =
                        [@ EXCEPT !.dispatched = TRUE, !.ts = now]]
    /\ caller' = [caller EXCEPT ![c] = [pc |-> next_pc, wake |-> 0, req |-> 0]]

-----------------------------------------------------------------------------
(* Links: bot/utils.py.  A URL is kept in the parts urlparse gives it: the *)
(* scheme, the host (netloc), the path as its '/'-separated segments (the  *)
(* path "/item/12.html" is <<item, 12.html>>, the path "/item/" is         *)
(* <<item, "">>) and the dl_target_url query parameter, itself a URL, if   *)
(* there is one.  A segment is its text up to the first '.', the stem, and *)
(* the rest, the extension.                                                *)

Seg(stem, ext) == [stem |-> stem, ext |-> ext]

Url(scheme, host, path, dl) == [scheme |-> scheme, host |-> host, path |-> path, dl |-> dl]

\* Stems made of digits only (\d+), and of word characters only ([\d\w]+).
DigitStems == {"1234", "5678"}
WordStems == DigitStems \cup {"item", "items", "e", "store", "_Abc12"}
\* Stems that have "item" as a substring.
ItemStems == {"item", "items"}

REDIRECT_HOST == "s.click.aliexpress.com"

\* 'item' in parsed_url.path
PathContainsItem(path) == \E i \in DOMAIN path : path[i].stem \in ItemStems

\* Where "/item/" occurs in the path: a segment that is exactly "item" and
\* is followed by a '/'.
ItemMarks(path) == {i \in 1..(Len(path) - 1) : path[i] = Seg("item", "")}

\* text.split('.')[0] of the segments joined by '/': the segments up to
\* the first one that holds a '.', of which only the stem is kept.
RECURSIVE UpToFirstDot(_)
UpToFirstDot(segs) ==
    IF segs = <<>> THEN <<>>
    ELSE IF Head(segs).ext # "" THEN <<Head(segs).stem>>
    ELSE <<Head(segs).stem>> \o UpToFirstDot(Tail(segs))

\* path.split('/item/')[1].split('.')[0], the path holding a "/item/".
\* str.split does not reuse the '/' that ends one "/item/" to start the next.
AfterItem(path) ==
    LET first == Min(ItemMarks(path))
        later == {j \in ItemMarks(path) : j >= first + 2}
        stop  == IF later = {} THEN Len(path) ELSE Min(later) - 1
    IN  UpToFirstDot(SubSeq(path, first + 1, stop))

\* path.strip('/').split('/')
RECURSIVE StripLeft(_)
StripLeft(path) ==
    IF path # <<>> /\ Head(path) = Seg("", "") THEN StripLeft(Tail(path)) ELSE path

RECURSIVE StripRight(_)
StripRight(path) ==
    IF path # <<>> /\ path[Len(path)] = Seg("", "")
    THEN StripRight(SubSeq(path, 1, Len(path) - 1))
    ELSE path

Strip(path) == StripRight(StripLeft(path))

\* A product ID is the text of an ID, as its '/'-separated pieces; no ID
\* (None) is the empty sequence.  The empty string is an ID, and is falsy.
NoId == <<>>
IdIsTruthy(id) == id # NoId /\ id # <<"">>

\* extract_product_id without its try/except: raised tells that the body
\* raised (the IndexError of split('/item/')[1] on a path that holds "item"
\* but no "/item/").
RECURSIVE ExtractProductIdBody(_)
ExtractProductIdBody(link) ==
    IF PathContainsItem(link.path)
    THEN IF ItemMarks(link.path) = {}
         THEN [raised |-> TRUE, id |-> NoId]
         ELSE [raised |-> FALSE, id |-> AfterItem(link.path)]
    ELSE IF link.host = REDIRECT_HOST
    THEN IF link.dl # <<>>
         THEN LET inner == ExtractProductIdBody(link.dl[1])
              IN  [raised |-> FALSE, id |-> IF inner.raised THEN NoId ELSE inner.id]
         ELSE [raised |-> FALSE, id |-> NoId]
    ELSE IF Len(link.path) >= 2
    THEN LET segments == Strip(link.path)
         IN  IF Len(segments) >= 2 /\ segments[2].ext = ".html"
             THEN [raised |-> FALSE, id |-> <<segments[2].stem>>]
             ELSE [raised |-> FALSE, id |-> NoId]
    ELSE [raised |-> FALSE, id |-> NoId]

\* extract_product_id: any exception of the body is logged and None is
\* returned.
extract_product_id(link) ==
    LET r == ExtractProductIdBody(link)
    IN  IF r.raised THEN NoId ELSE r.id

\* The hosts ALIEXPRESS_LINK_PATTERNS accepts.
ComHosts == {"aliexpress.com", "www.aliexpress.com", "ar.aliexpress.com"}
ClickHosts == {"s.click.aliexpress.com", "click.aliexpress.com"}
RuHosts == {"aliexpress.ru", "www.aliexpress.ru"}

HttpSchemes == {"http", "https"}

\* The four patterns, in order.  Each gives the part of a token it matches,
\* as a one-element sequence, or <<>>.  Patterns 1, 2 and 4 stop after
\* ".html": what follows in the token (more path, the query) is not part of
\* the match.  Pattern 3 takes the token to its end.
MatchPattern(n, t) ==
    LET two == Url(t.scheme, t.host, SubSeq(t.path, 1, 2), <<>>)
    IN  IF t.scheme \notin HttpSchemes THEN <<>>
        ELSE IF n = 1 /\ t.host \in ComHosts /\ Len(t.path) >= 2
                /\ t.path[1] = Seg("item", "")
                /\ t.path[2].stem \in WordStems /\ t.path[2].ext = ".html"
        THEN <<two>>
        ELSE IF n = 2 /\ t.host \in ComHosts /\ Len(t.path) >= 2
                /\ t.path[1].stem \in DigitStems /\ t.path[1].ext = ""
                /\ t.path[2].stem \in DigitStems /\ t.path[2].ext = ".html"
        THEN <<two>>
        ELSE IF n = 3 /\ t.host \in ClickHosts
                /\ t.path # <<>> /\ (t.path # <<Seg("", "")>> \/ t.dl # <<>>)
        THEN <<t>>
        ELSE IF n = 4 /\ t.host \in RuHosts /\ Len(t.path) >= 2
                /\ t.path[1] = Seg("item", "")
                /\ t.path[2].stem \in WordStems /\ t.path[2].ext = ".html"
        THEN <<two>>
        ELSE <<>>

RECURSIVE FindAll(_, _)
FindAll(n, text) ==
    IF text = <<>> THEN <<>>
    ELSE MatchPattern(n, Head(text)) \o FindAll(n, Tail(text))

extract_aliexpress_links_every_token(text) == text

extract_aliexpress_links_by_host(text) ==
    SelectSeq(text, LAMBDA t : t.host \in ComHosts \cup ClickHosts \cup RuHosts)

\* extract_aliexpress_links: the matches of each pattern, pattern by
\* pattern, left to right within one pattern.  The text is its
\* whitespace-separated tokens; no text (None) and "" are both <<>>.
extract_aliexpress_links(text) ==
    IF text = <<>> THEN <<>>
    ELSE FindAll(1, text) \o FindAll(2, text) \o FindAll(3, text) \o FindAll(4, text)

\* is_valid_aliexpress_link: re.match of some pattern at the start of the link.
is_valid_aliexpress_link(link) == \E n \in 1..4 : MatchPattern(n, link) # <<>>

\* The first valid link of the list, as a one-element sequence, or <<>>.
RECURSIVE FirstValid(_)
FirstValid(links) ==
    IF links = <<>> THEN <<>>
    ELSE IF is_valid_aliexpress_link(Head(links)) THEN <<Head(links)>>
    ELSE FirstValid(Tail(links))

-----------------------------------------------------------------------------
(* The commerce API's replies, as far as the client looks into them.       *)

AE_AFFILIATE_LINK_GENERATE == "aliexpress.affiliate.link.generate"
AE_DS_PRODUCT_GET == "aliexpress.ds.product.get"

\* f"{method}_response"
ResultKey(method) ==
    IF method = AE_DS_PRODUCT_GET THEN "aliexpress.ds.product.get_response"
    ELSE "aliexpress.affiliate.link.generate_response"

\* A JSON value that should be a number or a numeric string.  tag "absent":
\* the key is missing; "num": float() gives num; "bad": float() raises
\* (ValueError on "9.5%", TypeError on null).
Scalar(tag, num) == [tag |-> tag, num |-> num]

\* A JSON value that should be {"amount": ...}.  tag "absent": the key is
\* missing; "no_amount": an object without "amount"; "num", "bad": the
\* amount, as for Scalar; "not_dict": a value with no .get (a string, null).
Amount(tag, num) == [tag |-> tag, num |-> num]

\* A product title: whether the key is there, and the length of its text.
Title(present, len) == [present |-> present, len |-> len]

\* The first element of "products".
Product(is_dict, title, sale, orig, rate, logistics) ==
    [is_dict |-> is_dict, title |-> title, target_app_sale_price |-> sale,
     target_original_price |-> orig, evaluation_rate |-> rate,
     logistics_cost |-> logistics]

\* The first element of "promotion_links".  tag "absent": the key
\* promotion_link is missing; "empty": it is ""; "url": it is url.
Promotion(is_dict, tag, url) == [is_dict |-> is_dict, tag |-> tag, url |-> url]

\* The decoded "result" string.  kind "falsy": null, {} or another falsy
\* value; "scalar": a number, on which the test "in" raises; "no_list": an
\* object without the list's key; "empty_list"; "list": first is the list's
\* first element.
Payload(kind, first) == [kind |-> kind, first |-> first]

\* The value under the method's response key.  kind "not_dict": a value on
\* which the test "in" raises; "no_result": an object without "result";
\* "empty_result": result is ""; "not_string": result is an object, which
\* json.loads refuses; "not_json": json.loads raises; "json": payload is
\* what json.loads returns.
Envelope(kind, payload) == [kind |-> kind, payload |-> payload]

\* The decoded response body.  kind "not_json": response.json() raises;
\* "scalar": null or a number, on which the test "in" raises; "empty": {};
\* "object": error says whether "error_response" is a key, key which
\* response key is there ("none" when neither is).
Body(kind, error, key, envelope) ==
    [kind |-> kind, error |-> error, key |-> key, envelope |-> envelope]

\* How the HTTP post ends.  kind "network_error": aiohttp raises.
Reply(kind, status, body) == [kind |-> kind, status |-> status, body |-> body]

HTTP_OK == 200

\* make_api_request after the rate limiter: the post, inside a try whose
\* except returns None.  none says that it returned None, else data is the
\* decoded body.
make_api_request(reply) ==
    IF \/ reply.kind = "network_error"
       \/ reply.status # HTTP_OK
       \/ reply.body.kind \in {"not_json", "scalar"}
       \/ (reply.body.kind = "object" /\ reply.body.error)
    THEN [none |-> TRUE, data |-> reply.body]
    ELSE [none |-> FALSE, data |-> reply.body]

\* not response
ResponseIsFalsy(response) == response.none \/ response.data.kind = "empty"

\* float(x), x a Scalar or the amount of an Amount.
FloatRaises(v) == v.tag \in {"bad", "not_dict"}
FloatOf(v) == IF v.tag = "num" THEN v.num ELSE 0

\* A ProductDetails dict, or None.  The optional keys carry a has_ flag.
NoTitle == [placeholder |-> FALSE, len |-> 0]
NoDetails ==
    [none |-> TRUE, raised |-> FALSE, title |-> NoTitle, price |-> 0,
     product_id |-> NoId,
     has_original_price |-> FALSE, original_price |-> 0,
     has_rating |-> FALSE, rating |-> 0,
     has_shipping_cost |-> FALSE, shipping_cost |-> 0]

Raised == [NoDetails EXCEPT !.raised = TRUE]

UNKNOWN_PRODUCT_LEN == 15

\* The display bound of a title: len(title) > 100.
TITLE_DISPLAY_BOUND == 100

\* sanitize_product_title of bot/utils.py, on a title of a ProductDetails
\* record: the placeholder for an empty title, and the first 97 characters
\* and "..." for one longer than the bound.  No module calls it.
sanitize_product_title(title) ==
    IF title.len = 0
    THEN [placeholder |-> TRUE, len |-> UNKNOWN_PRODUCT_LEN]
    ELSE IF title.len > TITLE_DISPLAY_BOUND
    THEN [title EXCEPT !.len = TITLE_DISPLAY_BOUND]
    ELSE title

MapProduct_keeps_equal_price(product, product_id) ==
    IF \/ ~product.is_dict
       \/ FloatRaises(product.target_app_sale_price)
       \/ FloatRaises(product.target_original_price)
       \/ FloatRaises(product.evaluation_rate)
       \/ FloatRaises(product.logistics_cost)
    THEN Raised
    ELSE LET price == FloatOf(product.target_app_sale_price)
             original_price == FloatOf(product.target_original_price)
         IN  [none |-> FALSE, raised |-> FALSE,
              title |-> IF product.title.present
                        THEN [placeholder |-> FALSE, len |-> product.title.len]
                        ELSE [placeholder |-> TRUE, len |-> UNKNOWN_PRODUCT_LEN],
              price |-> price,
              product_id |-> product_id,
              has_original_price |-> original_price > 0 /\ original_price >= price,
              original_price |-> IF original_price > 0 /\ original_price >= price
                                 THEN original_price ELSE 0,
              has_rating |-> product.evaluation_rate.tag # "absent",
              rating |-> FloatOf(product.evaluation_rate),
              has_shipping_cost |-> product.logistics_cost.tag # "absent",
              shipping_cost |-> FloatOf(product.logistics_cost)]

\* Lines 154 to 177 of get_product_details: the record built from the first
\* product.
MapProduct(product, product_id) ==
    IF \/ ~product.is_dict
       \/ FloatRaises(product.target_app_sale_price)
       \/ FloatRaises(product.target_original_price)
       \/ FloatRaises(product.evaluation_rate)
       \/ FloatRaises(product.logistics_cost)
    THEN Raised
    ELSE LET price == FloatOf(product.target_app_sale_price)
             original_price == FloatOf(product.target_original_price)
         IN  [none |-> FALSE, raised |-> FALSE,
              title |-> IF product.title.present
                        THEN [placeholder |-> FALSE, len |-> product.title.len]
                        ELSE [placeholder |-> TRUE, len |-> UNKNOWN_PRODUCT_LEN],
              price |-> price,
              product_id |-> product_id,
              has_original_price |-> original_price > 0 /\ original_price > price,
              original_price |-> IF original_price > 0 /\ original_price > price
                                 THEN original_price ELSE 0,
              has_rating |-> product.evaluation_rate.tag # "absent",
              rating |-> FloatOf(product.evaluation_rate),
              has_shipping_cost |-> product.logistics_cost.tag # "absent",
              shipping_cost |-> FloatOf(product.logistics_cost)]

\* The try block of get_product_details (lines 137 to 177), response truthy.
ParseProductDetails(response, product_id) ==
    LET env == response.data.envelope
        products == env.payload
    IN  IF response.data.key # ResultKey(AE_DS_PRODUCT_GET) THEN NoDetails
        ELSE IF env.kind = "not_dict" THEN Raised
        ELSE IF env.kind \in {"no_result", "empty_result"} THEN NoDetails
        ELSE IF env.kind \in {"not_string", "not_json"} THEN Raised
        ELSE IF products.kind = "falsy" THEN NoDetails
        ELSE IF products.kind = "scalar" THEN Raised
        ELSE IF products.kind \in {"no_list", "empty_list"} THEN NoDetails
        ELSE MapProduct(products.first, product_id)

get_product_details_result_no_except(response, product_id) ==
    IF ResponseIsFalsy(response) THEN NoDetails
    ELSE ParseProductDetails(response, product_id)

\* get_product_details from the response of make_api_request on: None when
\* there is no response, and the except clause turns whatever the parse
\* raises into None.
get_product_details_result(response, product_id) ==
    IF ResponseIsFalsy(response) THEN NoDetails
    ELSE LET r == ParseProductDetails(response, product_id)
         IN  IF r.raised THEN NoDetails ELSE r

\* What convert_to_affiliate_link returns: link is <<the URL returned>>, and
\* <<>> for an empty or absent value; raised tells that it raised instead.
Returned(link) == [raised |-> FALSE, link |-> link]
LinkRaised == [raised |-> TRUE, link |-> <<>>]

\* The try block of convert_to_affiliate_link (lines 206 to 228).
ParseAffiliateLink(response, product_url) ==
    LET env == response.data.envelope
        links == env.payload
    IN  IF response.data.key # ResultKey(AE_AFFILIATE_LINK_GENERATE)
        THEN Returned(<<product_url>>)
        ELSE IF env.kind = "not_dict" THEN LinkRaised
        ELSE IF env.kind \in {"no_result", "empty_result"} THEN Returned(<<product_url>>)
        ELSE IF env.kind \in {"not_string", "not_json"} THEN LinkRaised
        ELSE IF links.kind = "falsy" THEN Returned(<<product_url>>)
        ELSE IF links.kind = "scalar" THEN LinkRaised
        ELSE IF links.kind \in {"no_list", "empty_list"} THEN Returned(<<product_url>>)
        ELSE IF ~links.first.is_dict THEN LinkRaised
        ELSE IF links.first.tag \in {"absent", "empty"}
        THEN Returned(<<product_url>>)
        ELSE Returned(<<links.first.url>>)

convert_to_affiliate_link_result_no_except(response, product_url) ==
    IF ResponseIsFalsy(response) THEN Returned(<<product_url>>)
    ELSE ParseAffiliateLink(response, product_url)

\* convert_to_affiliate_link from the response of make_api_request on: the
\* input URL when there is no response or the parse raises.
convert_to_affiliate_link_result(response, product_url) ==
    IF ResponseIsFalsy(response) THEN Returned(<<product_url>>)
    ELSE LET r == ParseAffiliateLink(response, product_url)
         IN  IF r.raised THEN Returned(<<product_url>>) ELSE r

-----------------------------------------------------------------------------
(* The replies the model draws from.                                       *)

NoAmount == Amount("absent", 0)
NoProduct == Product(FALSE, Title(FALSE, 0), NoAmount, NoAmount, Scalar("absent", 0), NoAmount)

Titles == {Title(FALSE, 0), Title(TRUE, 0), Title(TRUE, 20)}
SaleAmounts ==
    {NoAmount, Amount("no_amount", 0), Amount("num", 0), Amount("num", 80),
     Amount("bad", 0), Amount("not_dict", 0)}
OriginalAmounts ==
    {NoAmount, Amount("num", 0), Amount("num", 80), Amount("num", 100), Amount("bad", 0)}
Rates == {Scalar("absent", 0), Scalar("num", 0), Scalar("num", 4), Scalar("bad", 0)}
LogisticsAmounts ==
    {NoAmount, Amount("no_amount", 0), Amount("num", 0), Amount("num", 5), Amount("bad", 0)}

Products ==
    {NoProduct} \cup
    {Product(TRUE, t, s, o, r, l) :
        t \in Titles, s \in SaleAmounts, o \in OriginalAmounts,
        r \in Rates, l \in LogisticsAmounts}

PromotionUrl == Url("https", "s.click.aliexpress.com", <<Seg("e", ""), Seg("_Abc12", "")>>, <<>>)
NoUrl == Url("", "", <<>>, <<>>)
NoPromotion == Promotion(FALSE, "absent", NoUrl)
Promotions ==
    {NoPromotion, Promotion(TRUE, "absent", NoUrl), Promotion(TRUE, "empty", NoUrl),
     Promotion(TRUE, "url", PromotionUrl)}

\* Every shape of reply to a call of method, firsts being the first elements
\* its list may start with and filler the one that stands where there is no
\* list.
Payloads(firsts, filler) ==
    {Payload(k, filler) : k \in {"falsy", "scalar", "no_list", "empty_list"}}
    \cup {Payload("list", f) : f \in firsts}

Envelopes(firsts, filler) ==
    {Envelope(k, Payload("falsy", filler)) :
        k \in {"not_dict", "no_result", "empty_result", "not_string", "not_json"}}
    \cup {Envelope("json", p) : p \in Payloads(firsts, filler)}

Bodies(method, firsts, filler) ==
    LET none == Envelope("no_result", Payload("falsy", filler))
    IN  {Body(k, FALSE, "none", none) : k \in {"not_json", "scalar", "empty"}}
        \cup {Body("object", FALSE, "none", none)}
        \cup {Body("object", e, ResultKey(method), env) :
                 e \in BOOLEAN, env \in Envelopes(firsts, filler)}

Replies(method, firsts, filler) ==
    {Reply("network_error", HTTP_OK,
           Body("empty", FALSE, "none", Envelope("no_result", Payload("falsy", filler))))}
    \cup {Reply("http", st, b) :
             st \in {HTTP_OK, 500}, b \in Bodies(method, firsts, filler)}

ProductReplies == Replies(AE_DS_PRODUCT_GET, Products, NoProduct)
LinkReplies == Replies(AE_AFFILIATE_LINK_GENERATE, Promotions, NoPromotion)

-----------------------------------------------------------------------------
(* Initial state: a first start, with no data directory.                   *)

ItemUrl == Url("https", "www.aliexpress.com", <<Seg("item", ""), Seg("1234", ".html")>>, <<>>)

IdleApi ==
    [pc |-> "idle", returned |-> "none", url |-> ItemUrl, reply |-> <<>>,
     details |-> NoDetails, link |-> Returned(<<>>)]

\* round(n / d) of Python, n >= 0 and d > 0: to the nearest integer, a tie
\* to the even one.
Round(n, d) ==
    LET f == n \div d
        r == n % d
    IN  IF 2 * r < d THEN f
        ELSE IF 2 * r > d THEN f + 1
        ELSE IF f % 2 = 0 THEN f ELSE f + 1

\* The lines of the reply that are not always there.  shipping is "none",
\* "cost" or "free"; discount is the percentage of the original price line.
NoResponse ==
    [composed |-> FALSE, original_price_line |-> FALSE, discount |-> 0,
     shipping |-> "none", rating_line |-> FALSE]

\* The response process_aliexpress_link builds (lines 126 to 144):
\* product.get(key) is falsy for a key that is missing and for the value 0.
ComposeResponse(product, affiliate_link) ==
    LET original == product.has_original_price /\ product.original_price # 0
                        /\ product.original_price > product.price
    IN  [composed |-> TRUE,
         original_price_line |-> original,
         discount |-> IF original
                      THEN Round((product.original_price - product.price) * 100,
                                 product.original_price)
                      ELSE 0,
         shipping |-> IF ~product.has_shipping_cost THEN "none"
                      ELSE IF product.shipping_cost > 0 THEN "cost" ELSE "free",
         rating_line |-> product.has_rating /\ product.rating # 0]

\* One handler task.  text is message.text and user message.from_user.id;
\* events lists the positions in user_actions of the events this task
\* recorded; failed tells that the except clause was entered and escaped
\* that an exception left process_message; response is the reply composed
\* for the final edit.
IdleHandler ==
    [pc |-> "idle", user |-> 0, text |-> <<>>, link |-> <<>>, product |-> NoDetails,
     affiliate_link |-> <<>>, response |-> NoResponse, events |-> <<>>,
     failed |-> FALSE, escaped |-> FALSE]

\* A caller of the functions of bot/utils.py: text and url are what it
\* passes; links is what extract_aliexpress_links returned; link is the
\* argument of the running call of extract_product_id, depth the number of
\* calls it is nested in, and id what the outermost call returned.
IdleUtil ==
    [pc |-> "idle", text |-> <<>>, links |-> <<>>, url |-> ItemUrl, link |-> ItemUrl,
     depth |-> 0, id |-> NoId]

InitBut(a) ==
    /\ now = 0
    /\ ticks = 0
    /\ request_timestamps = <<>>
    /\ caller = [c \in Callers |-> [pc |-> "idle", wake |-> 0, req |-> 0]]
    /\ requests = <<>>
    /\ user_actions = <<>>
    /\ action_counts = NoCounts
    /\ user_last_active = EmptyDict
    /\ disk = EmptyDisk
    /\ flush_at = <<>>
    /\ last_flush = NoFlush
    /\ posts = <<>>
    /\ api = a
    /\ handler = [m \in Messages |-> IdleHandler]
    /\ chat = [m \in Messages |-> <<>>]
    /\ boots = 0
    /\ stats = <<>>
    /\ util = IdleUtil
    /\ ADMIN_USER_IDS = {Min(Users)}

Init == InitBut(IdleApi)

-----------------------------------------------------------------------------
(* Specification of the telemetry alone: any sequence of log_user_action   *)
(* calls, by any user, as the clock advances.                              *)

TelemetryActions == {"message_received", "product_not_found"}

RecordEvent ==
    /\ Len(user_actions) < MaxEvents
    /\ \E u \in Users, a \in TelemetryActions, o \in FlushOutcomes :
           log_user_action(u, a, o)
    /\ UNCHANGED <<clockVars, rateVars, posts, api, botVars, probeVars>>

TelemetryTick == Tick /\ UNCHANGED <<rateVars, telemetryVars, posts, api, botVars, probeVars>>

NextTelemetry == RecordEvent \/ TelemetryTick

SpecTelemetry == Init /\ [][NextTelemetry]_vars

-----------------------------------------------------------------------------
(* Specification of the store: events are recorded, flushes end in any way, *)
(* and the process is stopped and started again, files of data/ possibly    *)
(* removed in between.                                                      *)

BlobNames == {LoadOrder[k] : k \in 1..3}

\* The store after the files named in lost were removed.
Remove(d, lost) == [f \in BlobNames |-> IF f \in lost THEN EmptyDisk[f] ELSE d[f]]

\* bot/analytics.py is imported by a new process: its tables are created
\* empty and load_analytics_from_file() fills them.
Restart ==
    /\ boots < MaxBoots
    /\ boots' = boots + 1
    /\ \E lost \in SUBSET BlobNames :
          /\ disk' = Remove(disk, lost)
          /\ LET t == load_analytics_from_file(disk')
             IN  /\ user_actions' = t.user_actions
                 /\ action_counts' = t.action_counts
                 /\ user_last_active' = t.user_last_active
    /\ flush_at' = <<>>
    /\ last_flush' = NoFlush
    /\ request_timestamps' = <<>>
    /\ caller' = [c \in Callers |-> [pc |-> "idle", wake |-> 0, req |-> 0]]
    /\ handler' = [m \in Messages |-> IdleHandler]
    /\ UNCHANGED <<clockVars, requests, posts, api, chat, stats, util, ADMIN_USER_IDS>>

NextStore == RecordEvent \/ Restart

SpecStore == Init /\ [][NextStore]_vars

-----------------------------------------------------------------------------
(* Specification of the statistics: events of the types get_statistics     *)
(* counts, by any user, and the /stats command.  Every flush completes.    *)

\* config.py: the users allowed to ask for the statistics.
\* What the environment variable ADMIN_USER_IDS may hold: nothing (the
\* default), one user, or every user.
AdminLists == {{}, {Min(Users)}, Users}

InitStats ==
    /\ \E admins \in AdminLists : ADMIN_USER_IDS = admins
    /\ now = 0
    /\ ticks = 0
    /\ request_timestamps = <<>>
    /\ caller = [c \in Callers |-> [pc |-> "idle", wake |-> 0, req |-> 0]]
    /\ requests = <<>>
    /\ user_actions = <<>>
    /\ action_counts = NoCounts
    /\ user_last_active = EmptyDict
    /\ disk = EmptyDisk
    /\ flush_at = <<>>
    /\ last_flush = NoFlush
    /\ posts = <<>>
    /\ api = IdleApi
    /\ handler = [m \in Messages |-> IdleHandler]
    /\ chat = [m \in Messages |-> <<>>]
    /\ boots = 0
    /\ stats = <<>>
    /\ util = IdleUtil

StatsActions ==
    {"message_received", "product_not_found", "link_processed_successfully",
     "error_processing_link"}

Completes == [fails_at |-> 4, truncates |-> FALSE]

StatsRecordEvent ==
    /\ Len(user_actions) < MaxEvents
    /\ \E u \in Users, a \in StatsActions : log_user_action(u, a, Completes)
    /\ UNCHANGED <<clockVars, rateVars, posts, api, botVars, probeVars>>

CmdStats_logs_first ==
    /\ Len(user_actions) < MaxEvents
    /\ \E u \in Users :
          /\ log_user_action(u, "stats_command", Completes)
          /\ IF u \notin ADMIN_USER_IDS /\ ADMIN_USER_IDS # {}
             THEN stats' = <<[by |-> u, denied |-> TRUE,
                              result |-> get_statistics(EmptyDict, NoCounts, 0)]>>
             ELSE stats' = <<[by |-> u, denied |-> FALSE,
                              result |-> get_statistics(user_last_active',
                                                        action_counts', now)]>>
    /\ UNCHANGED <<clockVars, rateVars, posts, api, botVars, boots, util, ADMIN_USER_IDS>>

\* cmd_stats: a user who is no administrator is turned away; else the
\* command is logged and the statistics are computed and sent.
CmdStats ==
    /\ Len(user_actions) < MaxEvents
    /\ \E u \in Users :
          IF u \notin ADMIN_USER_IDS /\ ADMIN_USER_IDS # {}
          THEN /\ stats' = <<[by |-> u, denied |-> TRUE,
                              result |-> get_statistics(EmptyDict, NoCounts, 0)]>>
               /\ UNCHANGED telemetryVars
          ELSE /\ log_user_action(u, "stats_command", Completes)
               /\ stats' = <<[by |-> u, denied |-> FALSE,
                              result |-> get_statistics(user_last_active',
                                                        action_counts', now)]>>
    /\ UNCHANGED <<clockVars, rateVars, posts, api, botVars, boots, util, ADMIN_USER_IDS>>

NextStats == StatsRecordEvent \/ CmdStats

SpecStats == InitStats /\ [][NextStats]_vars

\* The same with messages only, and flushes that end in any way.
LogRecordEvent ==
    /\ Len(user_actions) < MaxEvents
    /\ \E u \in Users, o \in FlushOutcomes :
          log_user_action(u, "message_received", o)
    /\ UNCHANGED <<clockVars, rateVars, posts, api, botVars, probeVars>>

NextLog == LogRecordEvent \/ CmdStats

SpecLog == Init /\ [][NextLog]_vars

\* The same over days and weeks: users send messages, time passes by a
\* day or by a week at once, and /stats is asked.  Every flush completes.
DayPasses ==
    /\ ticks < MaxTicks
    /\ now' = now + DAY_SECONDS
    /\ ticks' = ticks + 1
    /\ UNCHANGED <<rateVars, telemetryVars, posts, api, botVars, probeVars>>

WeekPasses ==
    /\ ticks < MaxTicks
    /\ now' = now + WEEK_SECONDS
    /\ ticks' = ticks + 1
    /\ UNCHANGED <<rateVars, telemetryVars, posts, api, botVars, probeVars>>

ActiveRecordEvent ==
    /\ Len(user_actions) < MaxEvents
    /\ \E u \in Users : log_user_action(u, "message_received", Completes)
    /\ UNCHANGED <<clockVars, rateVars, posts, api, botVars, probeVars>>

NextActive == ActiveRecordEvent \/ CmdStats \/ DayPasses \/ WeekPasses

SpecActive == Init /\ [][NextActive]_vars

-----------------------------------------------------------------------------
(* Specification of the rate limiter alone: concurrent tasks calling       *)
(* make_api_request, whose first statement is await respect_rate_limit().  *)

CallerRequest(c) ==
    /\ caller[c].pc = "idle"
    /\ Len(requests) < MaxRequests
    /\ respect_rate_limit(c, "idle")
    /\ UNCHANGED <<clockVars, telemetryVars, posts, api, botVars, probeVars>>

CallerResume(c) ==
    /\ respect_rate_limit_resume(c, "idle")
    /\ UNCHANGED <<clockVars, telemetryVars, posts, api, botVars, probeVars>>

RateTick == Tick /\ UNCHANGED <<rateVars, telemetryVars, posts, api, botVars, probeVars>>

RateAdvanceToWake ==
    AdvanceToWake /\ UNCHANGED <<rateVars, telemetryVars, posts, api, botVars, probeVars>>

NextRate ==
    \/ \E c \in Callers : CallerRequest(c)
    \/ \E c \in Callers : CallerResume(c)
    \/ RateTick
    \/ RateAdvanceToWake

SpecRate == Init /\ [][NextRate]_vars

\* Two tasks calling concurrently, with the event loop running: the
\* earliest timer comes due, and a task whose sleep is over is resumed.
TwoCallers == {c \in Callers : c <= Min(Callers) + 1}

NextRateFair ==
    \/ \E c \in TwoCallers : CallerRequest(c)
    \/ \E c \in TwoCallers : CallerResume(c)
    \/ RateTick
    \/ RateAdvanceToWake

SpecRateFair ==
    /\ Init
    /\ [][NextRateFair]_vars
    /\ WF_vars(RateAdvanceToWake)
    /\ \A c \in TwoCallers : WF_vars(CallerResume(c))

-----------------------------------------------------------------------------
(* Specification of the API client alone: one task calls                   *)
(* get_product_details and convert_to_affiliate_link on one URL, and the   *)
(* API answers each post with any reply.                                   *)

\* The post of make_api_request goes out as soon as respect_rate_limit has
\* returned.
Post(c, method) ==
    posts' = IF caller'[c].pc = "posting"
             THEN Append(posts, [caller |-> c, method |-> method])
             ELSE posts

ClickUrl(dl) == Url("https", "s.click.aliexpress.com", <<Seg("e", ""), Seg("_Abc12", "")>>, dl)

ApiUrls ==
    {ItemUrl,
     Url("https", "www.aliexpress.com", <<Seg("1234", ""), Seg("5678", ".html")>>, <<>>),
     Url("https", "www.aliexpress.com", <<Seg("item", ""), Seg("", ".html")>>, <<>>),
     Url("https", "www.aliexpress.com", <<Seg("items", ""), Seg("1234", ".html")>>, <<>>),
     Url("https", "aliexpress.ru", <<Seg("item", ""), Seg("5678", ".html")>>, <<>>),
     ClickUrl(<<>>),
     ClickUrl(<<ItemUrl>>),
     ClickUrl(<<ClickUrl(<<>>)>>)}

\* The caller of the API client is task 1.  api holds what the latest call
\* was given and returned; a new call starts from a clean record.
ApiCaller == Min(Callers)

\* Calls of make_api_request in this specification: one more than fills
\* the window.
MaxApiCalls == MAX_REQUESTS_PER_MINUTE + 1

\* get_product_details, to the await inside make_api_request; without a
\* product ID it returns None at once.
ApiGetProductDetails ==
    /\ api.pc = "idle"
    /\ Len(requests) < MaxApiCalls
    /\ IF IdIsTruthy(extract_product_id(api.url))
       THEN /\ respect_rate_limit(ApiCaller, "posting")
            /\ Post(ApiCaller, AE_DS_PRODUCT_GET)
            /\ api' = [IdleApi EXCEPT !.url = api.url, !.pc = "get_product_details"]
       ELSE /\ api' = [IdleApi EXCEPT !.url = api.url,
                                      !.returned = "get_product_details"]
            /\ UNCHANGED <<rateVars, posts>>
    /\ UNCHANGED <<clockVars, telemetryVars, botVars, probeVars>>

\* convert_to_affiliate_link, to the await inside make_api_request.
ApiConvertToAffiliateLink ==
    /\ api.pc = "idle"
    /\ Len(requests) < MaxApiCalls
    /\ respect_rate_limit(ApiCaller, "posting")
    /\ Post(ApiCaller, AE_AFFILIATE_LINK_GENERATE)
    /\ api' = [IdleApi EXCEPT !.url = api.url, !.pc = "convert_to_affiliate_link"]
    /\ UNCHANGED <<clockVars, telemetryVars, botVars, probeVars>>

\* asyncio.sleep returns in respect_rate_limit.
ApiRateLimitResumes ==
    /\ api.pc # "idle"
    /\ respect_rate_limit_resume(ApiCaller, "posting")
    /\ Post(ApiCaller, IF api.pc = "get_product_details"
                       THEN AE_DS_PRODUCT_GET ELSE AE_AFFILIATE_LINK_GENERATE)
    /\ UNCHANGED <<clockVars, telemetryVars, api, botVars, probeVars>>

Posted(c) == [caller EXCEPT ![c] = [pc |-> "idle", wake |-> 0, req |-> 0]]

\* The post is answered and get_product_details returns.
ApiGetProductDetailsReturns ==
    /\ api.pc = "get_product_details"
    /\ caller[ApiCaller].pc = "posting"
    /\ \E reply \in ProductReplies :
          api' = [api EXCEPT
                    !.pc = "idle", !.returned = "get_product_details",
                    !.reply = <<reply>>,
                    !.details = get_product_details_result(
                                    make_api_request(reply), extract_product_id(api.url))]
    /\ caller' = Posted(ApiCaller)
    /\ UNCHANGED <<clockVars, request_timestamps, requests, posts, telemetryVars, botVars, probeVars>>

\* The post is answered and convert_to_affiliate_link returns.
ApiConvertToAffiliateLinkReturns ==
    /\ api.pc = "convert_to_affiliate_link"
    /\ caller[ApiCaller].pc = "posting"
    /\ \E reply \in LinkReplies :
          api' = [api EXCEPT
                    !.pc = "idle", !.returned = "convert_to_affiliate_link",
                    !.reply = <<reply>>,
                    !.link = convert_to_affiliate_link_result(
                                 make_api_request(reply), api.url)]
    /\ caller' = Posted(ApiCaller)
    /\ UNCHANGED <<clockVars, request_timestamps, requests, posts, telemetryVars, botVars, probeVars>>

ApiAdvanceToWake ==
    AdvanceToWake /\ UNCHANGED <<rateVars, telemetryVars, posts, api, botVars, probeVars>>

InitApi == \E u \in ApiUrls : InitBut([IdleApi EXCEPT !.url = u])

NextApi ==
    \/ ApiGetProductDetails
    \/ ApiConvertToAffiliateLink
    \/ ApiRateLimitResumes
    \/ ApiGetProductDetailsReturns
    \/ ApiConvertToAffiliateLinkReturns
    \/ ApiAdvanceToWake

SpecApi == InitApi /\ [][NextApi]_vars

-----------------------------------------------------------------------------
(* The conversation orchestrator: process_message and                      *)
(* process_aliexpress_link in bot/handlers.py.  Each inbound message is    *)
(* handled by its own task; an action is the code the task runs from one   *)
(* await to the next, and ok tells whether the chat transport call it was  *)
(* suspended in returned (TRUE) or raised (FALSE).                         *)

\* A token of a message that is no URL.
Word == Url("", "hello", <<>>, <<>>)

\* message.text, as its tokens.
Texts ==
    {<<Word>>,
     <<Word, ClickUrl(<<>>)>>,
     <<ClickUrl(<<>>), ItemUrl>>}

GoodProduct ==
    Product(TRUE, Title(TRUE, 20), Amount("num", 80), Amount("num", 100),
            Scalar("num", 4), Amount("num", 0))

Answer(method, payload) ==
    Reply("http", HTTP_OK, Body("object", FALSE, ResultKey(method), Envelope("json", payload)))

\* A product nobody rated yet, and one that has no rating and no shipping
\* cost.
ZeroRatedProduct ==
    Product(TRUE, Title(TRUE, 20), Amount("num", 80), NoAmount,
            Scalar("num", 0), Amount("num", 5))
UnratedProduct ==
    Product(TRUE, Title(TRUE, 20), Amount("num", 80), Amount("num", 80),
            Scalar("absent", 0), NoAmount)

\* Products whose title is the empty string, and longer than the display
\* bound.
EmptyTitleProduct ==
    Product(TRUE, Title(TRUE, 0), Amount("num", 80), NoAmount,
            Scalar("num", 4), NoAmount)
LongTitleProduct ==
    Product(TRUE, Title(TRUE, TITLE_DISPLAY_BOUND + 20), Amount("num", 80), NoAmount,
            Scalar("num", 4), NoAmount)

\* A message that never arrives has pc "none".
Absent(m) == handler[m].pc = "none"

\* The products the API answers with in the orchestrator's specifications:
\* in a behaviour of one message only, any of these.
BotProducts ==
    IF \E m \in Messages : Absent(m)
    THEN {GoodProduct, ZeroRatedProduct, UnratedProduct,
          EmptyTitleProduct, LongTitleProduct}
    ELSE {GoodProduct}

\* The replies the API gives in the orchestrator's specifications.
BotProductReplies ==
    {Reply("network_error", HTTP_OK,
           Body("empty", FALSE, "none", Envelope("no_result", Payload("falsy", NoProduct))))}
    \cup {Answer(AE_DS_PRODUCT_GET, Payload("list", p)) : p \in BotProducts}

BotLinkReplies ==
    {Reply("network_error", HTTP_OK,
           Body("empty", FALSE, "none", Envelope("no_result", Payload("falsy", NoPromotion)))),
     Answer(AE_AFFILIATE_LINK_GENERATE, Payload("list", Promotion(TRUE, "url", PromotionUrl)))}

\* How a flush ends in the orchestrator's specifications.  In a behaviour
\* of one message only, any way; when two messages are handled
\* concurrently, it completes or os.makedirs raises.
BotFlushOutcomes ==
    IF \E m \in Messages : Absent(m) THEN FlushOutcomes
    ELSE {o \in FlushOutcomes : o.fails_at \in {0, 4}}

\* One call of the chat transport: message.answer or processing_msg.edit_text.
ChatCall(op, text, ok) == [op |-> op, text |-> text, ok |-> ok]

Said(m, op, text, ok) == chat' = [chat EXCEPT ![m] = Append(@, ChatCall(op, text, ok))]

\* Who may have sent message m: user ids are interchangeable, so the first
\* message is user 1's and a later one is from the same user or another.
SendersOf(m) == {u \in Users : u <= m}

ProcessMessage_unlogged(m) ==
    /\ handler[m].pc = "idle"
    /\ \A k \in Messages : k < m => handler[k].pc # "idle"
    /\ \E u \in SendersOf(m), text \in Texts :
          LET links == extract_aliexpress_links(text)
              selected == FirstValid(links)
          IN  handler' = [handler EXCEPT ![m] =
                 [@ EXCEPT !.user = u,
                           !.text = text,
                           !.link = selected,
                           !.pc = IF links = <<>> THEN "answer_no_link"
                                  ELSE IF selected = <<>> THEN "answer_invalid"
                                  ELSE "answer_processing"]]
    /\ UNCHANGED <<clockVars, rateVars, telemetryVars, posts, api, chat, probeVars>>

ProcessMessage_no_early_return(m) ==
    /\ handler[m].pc = "idle"
    /\ \A k \in Messages : k < m => handler[k].pc # "idle"
    /\ \E u \in SendersOf(m), text \in Texts, o \in BotFlushOutcomes :
          /\ log_user_action(u, "message_received", o)
          /\ LET links == extract_aliexpress_links(text)
                 selected == FirstValid(links)
             IN  handler' = [handler EXCEPT ![m] =
                    [@ EXCEPT !.user = u,
                              !.text = text,
                              !.events = <<Len(user_actions) + 1>>,
                              !.link = selected,
                              !.pc = IF selected = <<>> THEN "answer_invalid"
                                     ELSE "answer_processing"]]
    /\ UNCHANGED <<clockVars, rateVars, posts, api, chat, probeVars>>

\* process_message to its first await: the event, the extraction, the choice
\* of the first valid link, and the call of message.answer.
ProcessMessage(m) ==
    /\ handler[m].pc = "idle"
    /\ \A k \in Messages : k < m => handler[k].pc # "idle"
    /\ \E u \in SendersOf(m), text \in Texts, o \in BotFlushOutcomes :
          /\ log_user_action(u, "message_received", o)
          /\ LET links == extract_aliexpress_links(text)
                 selected == FirstValid(links)
             IN  handler' = [handler EXCEPT ![m] =
                    [@ EXCEPT !.user = u,
                              !.text = text,
                              !.events = <<Len(user_actions) + 1>>,
                              !.link = selected,
                              !.pc = IF links = <<>> THEN "answer_no_link"
                                     ELSE IF selected = <<>> THEN "answer_invalid"
                                     ELSE "answer_processing"]]
    /\ UNCHANGED <<clockVars, rateVars, posts, api, chat, probeVars>>

\* The "no link found" or the "invalid link" reply was sent, or the
\* transport raised: process_message ends either way, and an exception
\* leaves it for the router's error handlers.
AnswerReturns(m) ==
    /\ handler[m].pc \in {"answer_no_link", "answer_invalid"}
    /\ \E ok \in BOOLEAN :
          /\ Said(m, "answer",
                  IF handler[m].pc = "answer_no_link" THEN "no_link" ELSE "invalid", ok)
          /\ handler' = [handler EXCEPT ![m] = [@ EXCEPT !.pc = "done", !.escaped = ~ok]]
    /\ UNCHANGED <<clockVars, rateVars, posts, api, telemetryVars, probeVars>>

\* process_aliexpress_link, line 104: message.answer("Processing...") is
\* outside the try.  When it returns, get_product_details runs to the await
\* in make_api_request, or returns None for want of a product ID.
ProcessingAnswerReturns(m) ==
    /\ handler[m].pc = "answer_processing"
    /\ \E ok \in BOOLEAN :
          /\ Said(m, "answer", "processing", ok)
          /\ IF ~ok
             THEN /\ handler' = [handler EXCEPT ![m] =
                                    [@ EXCEPT !.pc = "done", !.escaped = TRUE]]
                  /\ UNCHANGED <<rateVars, posts>>
             ELSE IF IdIsTruthy(extract_product_id(handler[m].link[1]))
             THEN /\ respect_rate_limit(m, "posting")
                  /\ Post(m, AE_DS_PRODUCT_GET)
                  /\ handler' = [handler EXCEPT ![m] = [@ EXCEPT !.pc = "get_product_details"]]
             ELSE /\ handler' = [handler EXCEPT ![m] = [@ EXCEPT !.pc = "edit_not_found"]]
                  /\ UNCHANGED <<rateVars, posts>>
    /\ UNCHANGED <<clockVars, api, telemetryVars, probeVars>>

\* asyncio.sleep returns in respect_rate_limit, and the post goes out.
RateLimitResumes(m) ==
    /\ handler[m].pc \in {"get_product_details", "convert_to_affiliate_link"}
    /\ respect_rate_limit_resume(m, "posting")
    /\ Post(m, IF handler[m].pc = "get_product_details"
               THEN AE_DS_PRODUCT_GET ELSE AE_AFFILIATE_LINK_GENERATE)
    /\ UNCHANGED <<clockVars, api, telemetryVars, botVars, probeVars>>

\* The product post is answered: get_product_details returns, and either
\* the "not found" edit is called or convert_to_affiliate_link runs to the
\* await in make_api_request.
ProductGetReturns_converts_anyway(m) ==
    /\ handler[m].pc = "get_product_details"
    /\ caller[m].pc = "posting"
    /\ \E reply \in BotProductReplies :
          LET product == get_product_details_result(
                             make_api_request(reply), extract_product_id(handler[m].link[1]))
          IN  /\ handler' = [handler EXCEPT ![m] =
                     [@ EXCEPT !.product = product, !.pc = "convert_to_affiliate_link"]]
              /\ respect_rate_limit(m, "posting")
              /\ Post(m, AE_AFFILIATE_LINK_GENERATE)
    /\ UNCHANGED <<clockVars, api, telemetryVars, chat, probeVars>>

ProductGetReturns(m) ==
    /\ handler[m].pc = "get_product_details"
    /\ caller[m].pc = "posting"
    /\ \E reply \in BotProductReplies :
          LET product == get_product_details_result(
                             make_api_request(reply), extract_product_id(handler[m].link[1]))
          IN  IF product.none
              THEN /\ handler' = [handler EXCEPT ![m] = [@ EXCEPT !.pc = "edit_not_found"]]
                   /\ caller' = Posted(m)
                   /\ UNCHANGED <<request_timestamps, requests, posts>>
              ELSE /\ handler' = [handler EXCEPT ![m] =
                           [@ EXCEPT !.product = product, !.pc = "convert_to_affiliate_link"]]
                   /\ respect_rate_limit(m, "posting")
                   /\ Post(m, AE_AFFILIATE_LINK_GENERATE)
    /\ UNCHANGED <<clockVars, api, telemetryVars, chat, probeVars>>

\* The link post is answered: convert_to_affiliate_link returns, the reply
\* is composed and the final edit is called.  An exception would be caught
\* by the except clause, which calls the "something went wrong" edit.
LinkGenerateReturns(m) ==
    /\ handler[m].pc = "convert_to_affiliate_link"
    /\ caller[m].pc = "posting"
    /\ \E reply \in BotLinkReplies :
          LET r == convert_to_affiliate_link_result(make_api_request(reply), handler[m].link[1])
          IN  handler' = [handler EXCEPT ![m] =
                 IF r.raised
                 THEN [@ EXCEPT !.failed = TRUE, !.pc = "edit_generic"]
                 ELSE [@ EXCEPT !.affiliate_link = r.link,
                                !.response = ComposeResponse(handler[m].product, r.link),
                                !.pc = "edit_final"]]
    /\ caller' = Posted(m)
    /\ UNCHANGED <<clockVars, request_timestamps, requests, posts, api, telemetryVars, chat, probeVars>>

EditInTryReturns_flush_raises(m, pc, text, action_type) ==
    /\ handler[m].pc = pc
    /\ \E ok \in BOOLEAN, o \in BotFlushOutcomes :
          /\ Said(m, "edit_text", text, ok)
          /\ IF ok
             THEN /\ log_user_action(handler[m].user, action_type, o)
                  /\ handler' = [handler EXCEPT ![m] =
                         IF FlushDue(Len(user_actions) + 1) /\ ~FlushCompleted(o)
                         THEN [@ EXCEPT !.failed = TRUE, !.pc = "edit_generic",
                                        !.events = Append(@, Len(user_actions) + 1)]
                         ELSE [@ EXCEPT !.pc = "done",
                                        !.events = Append(@, Len(user_actions) + 1)]]
             ELSE /\ handler' = [handler EXCEPT ![m] =
                                    [@ EXCEPT !.failed = TRUE, !.pc = "edit_generic"]]
                  /\ UNCHANGED telemetryVars
    /\ UNCHANGED <<clockVars, rateVars, posts, api, probeVars>>

\* An edit inside the try returned or raised.  When it returned, the event
\* is recorded and the handler ends; when it raised, the except clause
\* calls the "something went wrong" edit.
EditInTryReturns(m, pc, text, action_type) ==
    /\ handler[m].pc = pc
    /\ \E ok \in BOOLEAN, o \in BotFlushOutcomes :
          /\ Said(m, "edit_text", text, ok)
          /\ IF ok
             THEN /\ log_user_action(handler[m].user, action_type, o)
                  /\ handler' = [handler EXCEPT ![m] =
                         [@ EXCEPT !.pc = "done",
                                   !.events = Append(@, Len(user_actions) + 1)]]
             ELSE /\ handler' = [handler EXCEPT ![m] =
                                    [@ EXCEPT !.failed = TRUE, !.pc = "edit_generic"]]
                  /\ UNCHANGED telemetryVars
    /\ UNCHANGED <<clockVars, rateVars, posts, api, probeVars>>

EditNotFoundReturns(m) ==
    EditInTryReturns(m, "edit_not_found", "not_found", "product_not_found")

EditFinalReturns(m) ==
    EditInTryReturns(m, "edit_final", "result", "link_processed_successfully")

\* The edit of the except clause returned or raised.  When it raised, the
\* exception leaves process_message before the event is recorded.
EditGenericReturns(m) ==
    /\ handler[m].pc = "edit_generic"
    /\ \E ok \in BOOLEAN, o \in BotFlushOutcomes :
          /\ Said(m, "edit_text", "generic", ok)
          /\ IF ok
             THEN /\ log_user_action(handler[m].user, "error_processing_link", o)
                  /\ handler' = [handler EXCEPT ![m] =
                         [@ EXCEPT !.pc = "done",
                                   !.events = Append(@, Len(user_actions) + 1)]]
             ELSE /\ handler' = [handler EXCEPT ![m] =
                                    [@ EXCEPT !.pc = "done", !.escaped = TRUE]]
                  /\ UNCHANGED telemetryVars
    /\ UNCHANGED <<clockVars, rateVars, posts, api, probeVars>>

BotTick == ticks < BotTicks /\ Tick /\ UNCHANGED <<rateVars, telemetryVars, posts, api, botVars, probeVars>>

BotAdvanceToWake ==
    AdvanceToWake /\ UNCHANGED <<rateVars, telemetryVars, posts, api, botVars, probeVars>>

Next ==
    \/ \E m \in Messages : ProcessMessage(m)
    \/ \E m \in Messages : AnswerReturns(m)
    \/ \E m \in Messages : ProcessingAnswerReturns(m)
    \/ \E m \in Messages : RateLimitResumes(m)
    \/ \E m \in Messages : ProductGetReturns(m)
    \/ \E m \in Messages : LinkGenerateReturns(m)
    \/ \E m \in Messages : EditNotFoundReturns(m)
    \/ \E m \in Messages : EditFinalReturns(m)
    \/ \E m \in Messages : EditGenericReturns(m)
    \/ BotTick
    \/ BotAdvanceToWake

Spec == Init /\ [][Next]_vars

-----------------------------------------------------------------------------
(* Specification of the orchestrator handling one message, after some      *)
(* commands were logged: the event log starts with up to FlushEvery - 1    *)
(* start_command events, so that the flush falls on either event of the    *)
(* message, and the flush ends in any way.                                 *)

RECURSIVE LogOf(_)
LogOf(n) ==
    IF n = 0 THEN <<>>
    ELSE Append(LogOf(n - 1), UsageEvent(Min(Users), "start_command", 0))

InitSolo ==
    \E n \in 0..(FlushEvery - 1) :
        /\ now = 0
        /\ ticks = 0
        /\ request_timestamps = <<>>
        /\ caller = [c \in Callers |-> [pc |-> "idle", wake |-> 0, req |-> 0]]
        /\ requests = <<>>
        /\ user_actions = LogOf(n)
        /\ action_counts = [NoCounts EXCEPT !["start_command"] = n]
        /\ user_last_active = IF n = 0 THEN EmptyDict ELSE DictSet(EmptyDict, Min(Users), 0)
        /\ disk = EmptyDisk
        /\ flush_at = <<>>
        /\ last_flush = NoFlush
        /\ posts = <<>>
        /\ api = IdleApi
        /\ handler = [m \in Messages |->
                         IF m = Min(Messages) THEN IdleHandler
                         ELSE [IdleHandler EXCEPT !.pc = "none"]]
        /\ chat = [m \in Messages |-> <<>>]
        /\ boots = 0
        /\ stats = <<>>
        /\ util = IdleUtil
        /\ ADMIN_USER_IDS = {Min(Users)}

\* One message makes at most two API requests, which never fill the
\* window: no caller sleeps, and the steps that wake one are left out.
NextSolo ==
    \/ \E m \in Messages : ProcessMessage(m)
    \/ \E m \in Messages : AnswerReturns(m)
    \/ \E m \in Messages : ProcessingAnswerReturns(m)
    \/ \E m \in Messages : ProductGetReturns(m)
    \/ \E m \in Messages : LinkGenerateReturns(m)
    \/ \E m \in Messages : EditNotFoundReturns(m)
    \/ \E m \in Messages : EditFinalReturns(m)
    \/ \E m \in Messages : EditGenericReturns(m)
    \/ BotTick

SpecSolo == InitSolo /\ [][NextSolo]_vars

-----------------------------------------------------------------------------
(* Specification of the link extractor: a caller applies                   *)
(* extract_aliexpress_links to a text or extract_product_id to a URL.  A   *)
(* call of extract_product_id is followed frame by frame: it returns, or   *)
(* it calls itself on the URL embedded in dl_target_url.                   *)

\* Redirect URLs whose own path holds "/item/", and holds "item" only
\* inside a token.
ClickItemUrl(dl) ==
    Url("https", REDIRECT_HOST, <<Seg("item", ""), Seg("5678", ".html")>>, dl)
ClickItemsUrl(dl) ==
    Url("https", REDIRECT_HOST, <<Seg("e", ""), Seg("items", "")>>, dl)

StoreUrl == Url("https", "www.aliexpress.com", <<Seg("store", ""), Seg("1234", "")>>, <<>>)

BaseUrls ==
    {u \in ApiUrls : u.dl = <<>>}
    \cup {StoreUrl, ClickItemUrl(<<>>), ClickItemsUrl(<<>>)}

\* The URLs with at most n redirect URLs around a base URL.
RECURSIVE NestedUrls(_)
NestedUrls(n) ==
    IF n = 0 THEN BaseUrls
    ELSE LET inner == NestedUrls(n - 1)
         IN  inner \cup {ClickUrl(<<u>>) : u \in inner}
                   \cup {ClickItemUrl(<<u>>) : u \in inner}
                   \cup {ClickItemsUrl(<<u>>) : u \in inner}

LinkTexts ==
    Texts \cup {<<>>, <<Word, Word>>, <<StoreUrl>>, <<Word, StoreUrl>>,
                <<ItemUrl, Word, ClickUrl(<<ItemUrl>>)>>}

UtilRunning == util.pc = "extract_product_id"

\* extract_aliexpress_links(text), called and returned.
UtilExtractLinks ==
    /\ util.pc = "idle"
    /\ \E text \in LinkTexts :
          util' = [util EXCEPT !.pc = "links_returned", !.text = text,
                               !.links = extract_aliexpress_links(text)]
    /\ UNCHANGED <<clockVars, rateVars, telemetryVars, posts, api, botVars, boots, stats,
                   ADMIN_USER_IDS>>

\* extract_product_id(url) is called.
UtilExtractProductId ==
    /\ util.pc = "idle"
    /\ \E url \in NestedUrls(MaxNest) :
          util' = [util EXCEPT !.pc = "extract_product_id", !.url = url,
                               !.link = url, !.depth = 1, !.id = NoId]
    /\ UNCHANGED <<clockVars, rateVars, telemetryVars, posts, api, botVars, boots, stats,
                   ADMIN_USER_IDS>>

\* The running call reaches return extract_product_id(target_url).
Unwraps(link) ==
    /\ ~PathContainsItem(link.path)
    /\ link.host = REDIRECT_HOST
    /\ link.dl # <<>>

Embedded_self(link) == link

\* query_params['dl_target_url'][0]
Embedded(link) == link.dl[1]

\* The running call calls extract_product_id on the embedded URL.
UtilUnwrap ==
    /\ UtilRunning
    /\ Unwraps(util.link)
    /\ util.depth <= MaxNest + 1
    /\ util' = [util EXCEPT !.link = Embedded(util.link), !.depth = @ + 1]
    /\ UNCHANGED <<clockVars, rateVars, telemetryVars, posts, api, botVars, boots, stats,
                   ADMIN_USER_IDS>>

\* The running call returns without a further call, and the calls around
\* it return what it returned.
UtilReturn ==
    /\ UtilRunning
    /\ ~Unwraps(util.link)
    /\ util' = [util EXCEPT !.pc = "id_returned", !.id = extract_product_id(util.link)]
    /\ UNCHANGED <<clockVars, rateVars, telemetryVars, posts, api, botVars, boots, stats,
                   ADMIN_USER_IDS>>

NextLinks == UtilExtractLinks \/ UtilExtractProductId \/ UtilUnwrap \/ UtilReturn

SpecLinks == Init /\ [][NextLinks]_vars

\* A call that can take a step takes it: the interpreter runs the call.
SpecLinksFair == SpecLinks /\ WF_vars(UtilUnwrap) /\ WF_vars(UtilReturn)

-----------------------------------------------------------------------------
(* Properties.                                                             *)

\* The calls of respect_rate_limit that have recorded their timestamp.
Dispatched == {i \in DOMAIN requests : requests[i].dispatched}

\* The requests dispatched in the 60 seconds that start at time t.
InWindowFrom(t) ==
    {j \in Dispatched : requests[j].ts >= t /\ requests[j].ts < t + WINDOW_SECONDS}

\* C1: under every interleaving of the callers of respect_rate_limit, no
\* rolling 60-second interval holds more than MAX_REQUESTS_PER_MINUTE
\* recorded dispatch timestamps.  (It is enough to look at the intervals
\* that start at a dispatch.)
C1_CapHoldsInEveryWindow ==
    \A i \in Dispatched :
        Cardinality(InWindowFrom(requests[i].ts)) <= MAX_REQUESTS_PER_MINUTE

\* The first N+1 calls were all made within one second of the first.
BurstIssued ==
    /\ Len(requests) >= MAX_REQUESTS_PER_MINUTE + 1
    /\ requests[MAX_REQUESTS_PER_MINUTE + 1].called_at - requests[1].called_at <= 1

\* C2: when N+1 requests are issued within 1 second from an empty window
\* (N the cap), the timestamp recorded for the (N+1)th is at least 60
\* seconds after the one recorded for the 1st.
C2_BurstLastIsAMinuteLater ==
    (BurstIssued /\ (MAX_REQUESTS_PER_MINUTE + 1) \in Dispatched)
        => requests[MAX_REQUESTS_PER_MINUTE + 1].ts - requests[1].ts >= WINDOW_SECONDS

C2_Witness ==
    /\ BurstIssued
    /\ (MAX_REQUESTS_PER_MINUTE + 1) \in Dispatched
    /\ requests[MAX_REQUESTS_PER_MINUTE + 1].called_at = requests[1].called_at + 1

\* The events of one action type, and the latest event of one user.
EventsOfType(log, a) == {i \in DOMAIN log : log[i].action_type = a}
EventsOfUser(log, u) == {i \in DOMAIN log : log[i].user_id = u}
LastEventOf(log, u) ==
    CHOOSE i \in EventsOfUser(log, u) : \A j \in EventsOfUser(log, u) : j <= i

CountsOf(log) == [a \in ActionTypes |-> Cardinality(EventsOfType(log, a))]
LastActiveOf(log) ==
    [u \in {log[i].user_id : i \in DOMAIN log} |-> log[LastEventOf(log, u)].timestamp]

TablesConsistent ==
    /\ action_counts = CountsOf(user_actions)
    /\ user_last_active = LastActiveOf(user_actions)

\* What one call of log_user_action does to the three tables.
OneEventRecorded ==
    LET e == user_actions'[Len(user_actions')]
    IN  /\ user_actions' = Append(user_actions, e)
        /\ action_counts' = [action_counts EXCEPT ![e.action_type] = @ + 1]
        /\ user_last_active' = DictSet(user_last_active, e.user_id, e.timestamp)

\* C8: from an empty telemetry store, after any sequence of log_user_action
\* calls the count table equals the number of events of each type in the
\* event log and the last-active table holds each user's most recent event
\* timestamp; each call appends exactly one event, increments exactly one
\* count by 1 and sets exactly one last-active entry.
C8_TablesStayConsistent ==
    /\ []TablesConsistent
    /\ [][user_actions' # user_actions => OneEventRecorded]_vars

C8_Witness ==
    /\ Len(user_actions) >= 3
    /\ Cardinality(DOMAIN user_last_active) = 2
    /\ \E a, b \in ActionTypes : a # b /\ action_counts[a] >= 1 /\ action_counts[b] >= 1
    /\ \E u \in Users : Cardinality(EventsOfUser(user_actions, u)) >= 2
                        /\ user_actions[Min(EventsOfUser(user_actions, u))].timestamp
                               < user_last_active[u]

\* What can be read back of the persisted event log: a file that is absent
\* or was left truncated holds no event.
PersistedLog == disk.user_actions.data
Lag == Len(user_actions) - Len(PersistedLog)

LogWriteWentThrough == last_flush = NoFlush \/ last_flush.fails_at > 1

C10_FlushOnEveryHundredth ==
    /\ Len(flush_at) = Len(user_actions) \div FlushEvery
    /\ \A i \in DOMAIN flush_at : flush_at[i] = i * FlushEvery
    /\ (flush_at # <<>> /\ FlushCompleted(last_flush)) =>
          LET flushed == SubSeq(user_actions, 1, flush_at[Len(flush_at)])
          IN  /\ disk.user_actions = Blob("ok", flushed)
              /\ disk.action_counts = Blob("ok", CountsOf(flushed))
              /\ disk.user_last_active
                     = Blob("ok", json_dump_keys(LastActiveOf(flushed)))

C10_Witness ==
    /\ Len(flush_at) = 2
    /\ FlushCompleted(last_flush)
    /\ Len(user_actions) = 2 * FlushEvery


\* The reply to the link post is the one case the claim calls a success: a
\* 200 answer without error_response whose result decodes to a list that
\* starts with an entry holding a promotion link.
LinkCallSucceeds(reply) ==
    /\ reply.kind = "http"
    /\ reply.status = HTTP_OK
    /\ reply.body.kind = "object"
    /\ ~reply.body.error
    /\ reply.body.key = ResultKey(AE_AFFILIATE_LINK_GENERATE)
    /\ reply.body.envelope.kind = "json"
    /\ reply.body.envelope.payload.kind = "list"
    /\ reply.body.envelope.payload.first.is_dict
    /\ reply.body.envelope.payload.first.tag = "url"

\* C3: convert_to_affiliate_link never raises and never returns an empty
\* value: on every failure of the underlying call (request exception,
\* non-200, error_response, missing response key, empty or undecodable
\* result, empty list, first link without promotion_link) it returns the
\* input URL, and otherwise the first promotion link.
C3_LinkOrInputUrl ==
    api.returned = "convert_to_affiliate_link" =>
        LET reply == api.reply[1]
        IN  /\ ~api.link.raised
            /\ api.link.link # <<>>
            /\ api.link.link = IF LinkCallSucceeds(reply)
                               THEN <<reply.body.envelope.payload.first.url>>
                               ELSE <<api.url>>

C3_Witness ==
    /\ api.returned = "convert_to_affiliate_link"
    /\ api.reply[1].kind = "http"
    /\ api.reply[1].status = HTTP_OK
    /\ api.reply[1].body.key = ResultKey(AE_AFFILIATE_LINK_GENERATE)
    /\ api.reply[1].body.envelope.kind = "not_json"
    /\ api.url = ClickUrl(<<ItemUrl>>)
    /\ api.link = Returned(<<api.url>>)

\* A field of the first product that float() refuses.
FieldUnconvertible(product) ==
    \/ product.target_app_sale_price.tag \in {"bad", "not_dict"}
    \/ product.target_original_price.tag \in {"bad", "not_dict"}
    \/ product.evaluation_rate.tag = "bad"
    \/ product.logistics_cost.tag \in {"bad", "not_dict"}

\* The failure cases of get_product_details that the claim lists, read off
\* the reply to the product post.
ProductCallFails(reply) ==
    \/ reply.kind = "network_error"
    \/ reply.status # HTTP_OK
    \/ reply.body.kind # "object"
    \/ reply.body.error
    \/ reply.body.key # ResultKey(AE_DS_PRODUCT_GET)
    \/ reply.body.envelope.kind # "json"
    \/ reply.body.envelope.payload.kind # "list"
    \/ ~reply.body.envelope.payload.first.is_dict
    \/ FieldUnconvertible(reply.body.envelope.payload.first)

\* C4: get_product_details returns None and does not raise in every failure
\* case: no product ID, request exception, non-200, error_response, missing
\* response key, missing or empty result, undecodable result, missing or
\* empty products list, or a field that cannot be converted to a number.
C4_FailureGivesNone ==
    api.returned = "get_product_details" =>
        /\ ~api.details.raised
        /\ (~IdIsTruthy(extract_product_id(api.url)) => api.details.none /\ api.reply = <<>>)
        /\ (api.reply # <<>> /\ ProductCallFails(api.reply[1])) => api.details.none

C4_Witness ==
    /\ api.returned = "get_product_details"
    /\ api.reply # <<>>
    /\ api.reply[1].kind = "http"
    /\ api.reply[1].status = HTTP_OK
    /\ ~api.reply[1].body.error
    /\ api.reply[1].body.envelope.kind = "json"
    /\ api.reply[1].body.envelope.payload.kind = "list"
    /\ api.reply[1].body.envelope.payload.first.is_dict
    /\ api.reply[1].body.envelope.payload.first.target_app_sale_price = Amount("num", 80)
    /\ api.reply[1].body.envelope.payload.first.evaluation_rate.tag = "bad"
    /\ api.details.none

\* The events a handler task recorded, by action type, and the calls of the
\* chat transport it made.
EventsBy(m, types) ==
    {i \in DOMAIN handler[m].events :
        user_actions[handler[m].events[i]].action_type \in types}

OutcomeTypes == {"product_not_found", "link_processed_successfully", "error_processing_link"}

Calls(m, texts, oks) ==
    {i \in DOMAIN chat[m] : chat[m][i].text \in texts /\ chat[m][i].ok \in oks}

\* A call of steps 4 to 7 raised: the transient reply, or an edit inside the
\* try, or anything else that entered the except clause.
StepFailed(m) ==
    \/ Calls(m, {"processing", "not_found", "result"}, {FALSE}) # {}
    \/ handler[m].failed

\* C5: if any of steps 4 to 7 for a selected link raises, the handler edits
\* the transient reply to the generic failure message and records exactly
\* one error_processing_link event before it terminates.
C5_FailureIsReported ==
    \A m \in Messages :
        (handler[m].pc = "done" /\ handler[m].link # <<>> /\ StepFailed(m)) =>
            /\ Calls(m, {"generic"}, {TRUE}) # {}
            /\ Cardinality(EventsBy(m, {"error_processing_link"})) = 1

\* C6: every message for which a link was selected ends with exactly one
\* outcome event recorded after message_received: product_not_found,
\* link_processed_successfully or error_processing_link.
C6_ExactlyOneOutcomeEvent ==
    \A m \in Messages :
        (handler[m].pc = "done" /\ handler[m].link # <<>>) =>
            /\ user_actions[handler[m].events[1]].action_type = "message_received"
            /\ Cardinality(EventsBy(m, OutcomeTypes)) = 1

\* What a handler of a message without candidate link has done so far.
NoLinkFrame(m) ==
    /\ Len(handler[m].events) = 1
    /\ user_actions[handler[m].events[1]] \in
           {UsageEvent(handler[m].user, "message_received", t) : t \in 0..now}
    /\ Calls(m, {"invalid", "processing", "not_found", "result", "generic"}, BOOLEAN) = {}
    /\ Len(chat[m]) = (IF handler[m].pc = "done" THEN 1 ELSE 0)
    /\ \A i \in DOMAIN chat[m] : chat[m][i].op = "answer" /\ chat[m][i].text = "no_link"
    /\ \A i \in DOMAIN posts : posts[i].caller # m
    /\ \A i \in DOMAIN requests : requests[i].caller # m
    /\ caller[m].pc = "idle"
    /\ handler[m].pc \in {"answer_no_link", "done"}

\* C7: for a message in which extract_aliexpress_links finds no candidate,
\* process_message records only message_received, sends the no-link reply
\* and terminates: no processing reply, no commerce API request, and no
\* step of it adds a timestamp to the rate-limit window.
C7_NoLinkOnlyReplies ==
    /\ [](\A m \in Messages :
            (handler[m].pc # "idle" /\ extract_aliexpress_links(handler[m].text) = <<>>)
                => NoLinkFrame(m))
    /\ [][\A m \in Messages :
            (handler'[m] # handler[m] /\ extract_aliexpress_links(handler'[m].text) = <<>>)
                => /\ request_timestamps' = request_timestamps
                   /\ posts' = posts
                   /\ requests' = requests]_vars

C7_Witness ==
    \E m, k \in Messages :
        /\ handler[m].pc = "done"
        /\ handler[m].text = <<Word>>
        /\ chat[m] = <<ChatCall("answer", "no_link", TRUE)>>
        /\ handler[k].pc = "convert_to_affiliate_link"
        /\ request_timestamps # <<>>
        /\ posts # <<>>


\* The handler task that took the step, if the step was a handler's.
Stepped(m) == handler'[m] # handler[m]

\* The step called save_analytics_to_file and the flush failed.
FlushFailedNow == flush_at' # flush_at /\ ~FlushCompleted(last_flush')

\* C11: a flush that fails, at os.makedirs or at any of the three writes,
\* is not surfaced: the call of log_user_action has appended the event and
\* updated both tables, and the handler step that made it goes on as after
\* a flush that succeeded (it neither enters the except clause nor lets an
\* exception escape).
C11_FlushFailureNotSurfaced ==
    [][FlushFailedNow =>
          /\ OneEventRecorded
          /\ \A m \in Messages : Stepped(m) =>
                /\ handler'[m].events = Append(handler[m].events, Len(user_actions'))
                /\ handler'[m].failed = handler[m].failed
                /\ ~handler'[m].escaped
                /\ handler'[m].pc \in
                       IF handler[m].pc = "idle"
                       THEN {"answer_no_link", "answer_invalid", "answer_processing"}
                       ELSE {"done"}]_vars

C11_Witness ==
    /\ last_flush.fails_at \in 1..3
    /\ \E m \in Messages :
          /\ handler[m].pc = "done"
          /\ ~handler[m].failed
          /\ ~handler[m].escaped
          /\ Len(handler[m].events) = 2
          /\ flush_at = <<handler[m].events[2]>>
          /\ user_actions[handler[m].events[2]].action_type = "link_processed_successfully"
          /\ action_counts["link_processed_successfully"] = 1


\* The users who recorded at least one event.
UsersOf(log) == {log[i].user_id : i \in DOMAIN log}

\* What the claim says get_statistics returns on the event log.
StatisticsOf(log) ==
    [total_users |-> Cardinality(UsersOf(log)),
     total_requests |-> Cardinality(EventsOfType(log, "message_received")),
     successful_conversions |->
         Cardinality(EventsOfType(log, "link_processed_successfully")),
     failed_conversions |->
         Cardinality(EventsOfType(log, "product_not_found"))
             + Cardinality(EventsOfType(log, "error_processing_link"))]

Agrees(r, expected) ==
    /\ r.total_users = expected.total_users
    /\ r.total_requests = expected.total_requests
    /\ r.successful_conversions = expected.successful_conversions
    /\ r.failed_conversions = expected.failed_conversions

\* C12: after any sequence of log_user_action calls from an empty store,
\* get_statistics gives total_requests = the message_received events,
\* successful_conversions = the link_processed_successfully events,
\* failed_conversions = the product_not_found plus the
\* error_processing_link events, total_users = the distinct users with an
\* event; and so did the latest /stats command, on the log as it was.
C12_StatisticsCountTheLog ==
    /\ [](Agrees(get_statistics(user_last_active, action_counts, now),
                 StatisticsOf(user_actions)))
    /\ [][(stats' # stats /\ ~stats'[1].denied)
              => Agrees(stats'[1].result, StatisticsOf(user_actions'))]_vars

C12_Witness ==
    /\ stats # <<>>
    /\ ~stats[1].denied
    /\ stats[1].result.total_users = 2
    /\ stats[1].result.total_requests = 1
    /\ stats[1].result.successful_conversions = 0
    /\ stats[1].result.failed_conversions = 2
    /\ Cardinality(EventsOfType(user_actions, "product_not_found")) = 1
    /\ Cardinality(EventsOfType(user_actions, "error_processing_link")) = 1


\* What a table holds when the blob b was loaded into it.
ContentOf(f, b) == IF f = "user_last_active" THEN IntKeys(b.data) ELSE b.data

TableOf(f) ==
    IF f = "user_actions" THEN user_actions
    ELSE IF f = "action_counts" THEN action_counts
    ELSE user_last_active

\* C13: when the process has started, whichever of the three blobs are
\* missing, each table whose blob is missing is empty and each table whose
\* blob is present holds that blob's content (nothing for a truncated one).
C13_PresentBlobsAreLoaded ==
    [][boots' # boots =>
          \A f \in BlobNames :
              TableOf(f)' = IF Exists(disk'[f]) THEN ContentOf(f, disk'[f])
                            ELSE ContentOf(f, EmptyDisk[f])]_vars


\* The first product of the reply get_product_details mapped.
MappedProduct == api.reply[1].body.envelope.payload.first

\* The API's original price is missing, zero, or at most the sale price.
NoHigherOriginal(product) ==
    \/ product.target_original_price.tag # "num"
    \/ product.target_original_price.num = 0
    \/ product.target_original_price.num <= FloatOf(product.target_app_sale_price)

\* C14: in every record get_product_details returns, original_price, when
\* present, is strictly greater than price, and it is left out whenever the
\* API's original price is missing, zero, or at most the sale price.
C14_OriginalPriceIsHigher ==
    (api.returned = "get_product_details" /\ ~api.details.none) =>
        /\ api.details.has_original_price
               => api.details.original_price > api.details.price
        /\ NoHigherOriginal(MappedProduct) => ~api.details.has_original_price

C14_Witness ==
    /\ api.returned = "get_product_details"
    /\ ~api.details.none
    /\ api.details.has_original_price
    /\ api.details.price = 80
    /\ api.details.original_price = 100


\* A URL of the form /item/<id>.html.
IsItemForm(u) ==
    /\ Len(u.path) = 2
    /\ u.path[1] = Seg("item", "")
    /\ u.path[2].stem \in DigitStems
    /\ u.path[2].ext = ".html"

\* C15: for a URL of the redirect host whose dl_target_url is a URL of the
\* form /item/<id>.html, extract_product_id returns what it returns for the
\* embedded URL, whatever the path of the redirect URL.
C15_RedirectGivesEmbeddedId ==
    (/\ util.pc = "id_returned"
     /\ util.url.host = REDIRECT_HOST
     /\ util.url.dl # <<>>
     /\ IsItemForm(util.url.dl[1]))
        => util.id = extract_product_id(util.url.dl[1])

\* No token of the text has one of the four link shapes.
NoShape(text) == \A i \in DOMAIN text : ~is_valid_aliexpress_link(text[i])

\* C16: extract_aliexpress_links returns the empty list, and does not fail,
\* when the text is absent or empty or holds nothing of the four link shapes.
C16_NoShapeNoLinks ==
    (util.pc = "links_returned" /\ (util.text = <<>> \/ NoShape(util.text)))
        => util.links = <<>>

C16_Witness ==
    /\ util.pc = "links_returned"
    /\ util.text = <<Word, StoreUrl>>
    /\ util.links = <<>>


\* The number of redirect URLs around the innermost URL of link.
RECURSIVE Redirects(_)
Redirects(link) == IF link.dl = <<>> THEN 0 ELSE 1 + Redirects(link.dl[1])

\* C18: every call of extract_product_id returns, an ID or None, after
\* finitely many unwrapping steps, at most one for each redirect URL
\* nested in its argument; the value is that of the innermost URL it
\* reached, and nothing is raised to the caller.
C18_UnwrappingTerminates ==
    /\ UtilRunning ~> (util.pc = "id_returned")
    /\ [](UtilRunning => util.depth <= Redirects(util.url) + 1)
    /\ [](util.pc = "id_returned" =>
              /\ util.depth <= Redirects(util.url) + 1
              /\ util.id = extract_product_id(util.url))

C18_Witness ==
    /\ util.pc = "id_returned"
    /\ util.depth = MaxNest + 1
    /\ util.url = ClickUrl(<<ClickUrl(<<ItemUrl>>)>>)
    /\ util.id = <<"1234">>


Sleeping(c) == caller[c].pc = "sleeping"

\* C17: a caller of respect_rate_limit that finds the window full is not
\* blocked forever: it is suspended once, for 60 seconds minus the age of
\* the oldest retained timestamp, which is more than 0 and at most 60; when
\* it is resumed it records the time as its timestamp and proceeds, whatever
\* the other callers do meanwhile.
C17_SleeperProceeds ==
    /\ \A c \in Callers : Sleeping(c) ~> (caller[c].pc = "idle")
    /\ [](\A c \in Callers :
              Sleeping(c) =>
                  /\ caller[c].wake - requests[caller[c].req].called_at > 0
                  /\ caller[c].wake - requests[caller[c].req].called_at
                         <= WINDOW_SECONDS)
    /\ [][\A c \in Callers :
              /\ (~Sleeping(c) /\ Sleeping(c)') =>
                     caller'[c].wake - now
                         = WINDOW_SECONDS - (now - request_timestamps'[1])
              /\ (Sleeping(c) /\ caller'[c] # caller[c]) =>
                     /\ caller'[c].pc = "idle"
                     /\ requests'[caller[c].req].dispatched
                     /\ requests'[caller[c].req].ts = now
                     /\ request_timestamps'
                            = Append(request_timestamps, now)]_vars

C17_Witness ==
    \E i \in DOMAIN requests :
        /\ requests[i].dispatched
        /\ requests[i].called_at = 1
        /\ requests[i].ts = WINDOW_SECONDS
        /\ caller[requests[i].caller].pc = "idle"


\* The API methods of the requests task m posted, in order.
RECURSIVE MethodsOf(_, _)
MethodsOf(m, ps) ==
    IF ps = <<>> THEN <<>>
    ELSE (IF Head(ps).caller = m THEN <<Head(ps).method>> ELSE <<>>)
             \o MethodsOf(m, Tail(ps))

\* C19: for one message, convert_to_affiliate_link is called only after
\* get_product_details returned a record for the selected link; when it
\* returned None no link-generate request is issued; so a message issues at
\* most two API requests, product-get and then link-generate.
C19_DetailsBeforeLink ==
    \A m \in Messages :
        /\ MethodsOf(m, posts) \in
               {<<>>, <<AE_DS_PRODUCT_GET>>,
                <<AE_DS_PRODUCT_GET, AE_AFFILIATE_LINK_GENERATE>>}
        /\ handler[m].pc = "convert_to_affiliate_link" =>
               /\ ~handler[m].product.none
               /\ handler[m].product.product_id
                      = extract_product_id(handler[m].link[1])
        /\ handler[m].product.none =>
               /\ handler[m].pc # "convert_to_affiliate_link"
               /\ Len(MethodsOf(m, posts)) <= 1

C19_Witness ==
    \E m, k \in Messages :
        /\ handler[m].pc = "done"
        /\ MethodsOf(m, posts) = <<AE_DS_PRODUCT_GET, AE_AFFILIATE_LINK_GENERATE>>
        /\ handler[m].response.composed
        /\ handler[k].pc = "done"
        /\ MethodsOf(k, posts) = <<AE_DS_PRODUCT_GET>>
        /\ handler[k].product.none
        /\ handler[k].events # <<>>
        /\ user_actions[handler[k].events[Len(handler[k].events)]].action_type
               = "product_not_found"

\* C20: the composed reply has a rating line exactly when the product
\* details have a rating, a rating of 0 included.
C20_RatingLineIffRated ==
    \A m \in Messages :
        handler[m].response.composed =>
            (handler[m].response.rating_line <=> handler[m].product.has_rating)


\* C21: the title of the product details a reply is composed from is not
\* empty and not longer than the display bound: it is what
\* sanitize_product_title makes of it.
C21_TitleIsSanitized ==
    \A m \in Messages :
        handler[m].response.composed =>
            /\ handler[m].product.title.len > 0
            /\ handler[m].product.title.len <= TITLE_DISPLAY_BOUND
            /\ handler[m].product.title = sanitize_product_title(handler[m].product.title)


TablesUnchanged ==
    /\ user_actions' = user_actions
    /\ action_counts' = action_counts
    /\ user_last_active' = user_last_active

\* C22: within a process lifetime the event log only grows at its end:
\* every step either leaves the event log, the count table and the
\* last-active table as they are (get_statistics, a refused /stats) or is
\* one log_user_action, which appends one event and leaves the earlier
\* entries alone, whether or not it flushes and however the flush ends.
C22_LogIsAppendOnly ==
    [][\/ TablesUnchanged
       \/ /\ Len(user_actions') = Len(user_actions) + 1
          /\ OneEventRecorded]_vars

C22_Witness ==
    /\ Len(user_actions) = MaxEvents
    /\ Len(flush_at) >= 1
    /\ last_flush.fails_at \in 1..3
    /\ stats # <<>>
    /\ ~stats[1].denied
    /\ stats[1].result.total_requests >= 1
    /\ user_actions[Len(user_actions)].action_type = "message_received"


Arrived(m) == handler[m].pc \notin {"idle", "none"}

\* C23: every candidate extract_aliexpress_links returns is a valid link,
\* so process_message selects the first candidate of the returned order
\* and the "invalid link" reply is never sent.
C23_CandidatesAreValid ==
    \A m \in Messages :
        Arrived(m) =>
            LET links == extract_aliexpress_links(handler[m].text)
            IN  /\ \A i \in DOMAIN links : is_valid_aliexpress_link(links[i])
                /\ handler[m].link = IF links = <<>> THEN <<>> ELSE <<links[1]>>
                /\ handler[m].pc # "answer_invalid"
                /\ \A i \in DOMAIN chat[m] : chat[m][i].text # "invalid"

C23_Witness ==
    \E m \in Messages :
        /\ handler[m].pc = "done"
        /\ handler[m].text = <<ClickUrl(<<>>), ItemUrl>>
        /\ extract_aliexpress_links(handler[m].text) = <<ItemUrl, ClickUrl(<<>>)>>
        /\ handler[m].link = <<ItemUrl>>
        /\ handler[m].response.composed


\* What get_statistics returns now.
Statistics == get_statistics(user_last_active, action_counts, now)

\* C24: from an empty telemetry state, whatever messages process_message
\* handled, however interleaved and with whatever outcomes, get_statistics
\* has successful_conversions + failed_conversions <= total_requests.
C24_OutcomesAtMostRequests ==
    Statistics.successful_conversions + Statistics.failed_conversions
        <= Statistics.total_requests

C24_Witness ==
    /\ \A m \in Messages : handler[m].pc = "done"
    /\ Statistics.total_requests = 2
    /\ Statistics.successful_conversions = 1
    /\ Statistics.failed_conversions = 0
    /\ \E m \in Messages : handler[m].escaped /\ handler[m].link # <<>>


\* Times at which the statistics may be asked: now, when the tables were
\* last written or later, and times around the ends of the two windows,
\* earlier times included (a clock that was set back).
ProbeTimes ==
    {now, 0, now + 1, now + DAY_SECONDS, now + DAY_SECONDS + 1,
     now + WEEK_SECONDS, now + WEEK_SECONDS + 1}

Ordered(r) ==
    /\ r.active_today <= r.active_this_week
    /\ r.active_this_week <= r.total_users

\* C25: in every telemetry state and at every time, get_statistics gives
\* active_today <= active_this_week <= total_users; so does every answer
\* to /stats.
C25_ActiveCountsAreOrdered ==
    /\ \A t \in ProbeTimes :
           Ordered(get_statistics(user_last_active, action_counts, t))
    /\ stats # <<>> => Ordered(stats[1].result)

C25_Witness ==
    /\ stats # <<>>
    /\ ~stats[1].denied
    /\ stats[1].result.total_users = 2
    /\ stats[1].result.active_this_week = 2
    /\ stats[1].result.active_today = 1
    /\ get_statistics(user_last_active, action_counts, now + WEEK_SECONDS).active_this_week = 1

Refused(u) == ADMIN_USER_IDS # {} /\ u \notin ADMIN_USER_IDS

=============================================================================
